---- MODULE Spec2Model ----
(***************************************************************************)
(* Transition driver of the particle viewer component (ParticleViewer.vue). *)
(* The component is single threaded: the browser runs one task at a time    *)
(* (a load event, a timer, a user call, a lifecycle hook) and, once per     *)
(* display refresh, the list of requested animation frame callbacks in the  *)
(* order they were requested.                                               *)
(*                                                                          *)
(* Time is counted in units of 1000 ms; one display frame lasts one unit.   *)
(* Instead of Date.now() and the start time an animation closure captured,  *)
(* the model keeps their difference (elapsed) with the closure; instead of  *)
(* a timer's due time it keeps the time remaining.                          *)
(* null is modelled by 0 for object references and handles.                 *)
(***************************************************************************)
EXTENDS Integers, Sequences, FiniteSets, TLC

\* ------------------------------------------------------------------ bounds
MaxLoads == 3          \* image loads (and so particle sets) ever started

\* ------------------------------------------------- configuration (props)
TransitionDuration == 2      \* props.transitionDuration, 2000 ms
AutoAdvanceInterval == 3     \* props.autoAdvanceInterval, 3000 ms

\* The image lists the parent may bind to props.images ("" is an empty locator).
ImageLists == { <<>>, <<"a", "b", "c">>, <<"a", "">> }

VARIABLES
    images,             \* props.images
    autoAdvance,        \* props.autoAdvance
    phase,              \* "created" (setup ran), "mounted", "unmounted"
    sets,               \* the particle sets created so far, by identity
    currentParticles,
    nextParticles,
    currentImageIndex,
    isTransitioning,
    animationFrameId,
    autoAdvanceTimer,
    rafQueue,           \* callbacks requested for the next frame, in order
    frameRun,           \* callbacks of the frame in progress not yet run
    timers,             \* pending setTimeout timers
    loads,              \* imageToParticles promises not yet settled
    loadsStarted,       \* number of imageToParticles calls so far
    advanceOutcome,     \* settlement of the promise the last accepted transitionToNext call returned
    failedAdvance,      \* an advance failed and no request or list change came since
    requestLen,         \* props.images.length when the last accepted advance computed nextIndex
    rendered,           \* renderer.render has run in the current frame
    lastEvent,          \* the operation that ran last
    lastReturn          \* where that operation returned or suspended

\* ------------------------------------------- one particle set, in detail
\* The second part of the model follows a single particle set through its
\* life with its arrays spelled out: an image is rasterized and sampled, the
\* set is seeded far away, imploded frame by frame, framed by the camera,
\* later exploded and disposed.  The other set of a transition runs through
\* the same code and is not followed.  Coordinates, random numbers, easing
\* values and camera distances are fixed-point numbers in thousandths, colours
\* are in 255ths, times are in milliseconds.  A third specification follows
\* the camera distance with the set: the clicks that zoom and that show and
\* hide the work gallery, and the render loop that moves the camera.  A fourth
\* follows the image planes of the work gallery through the texture loads of
\* createWorkImagePlanes.

CanvasSize == 4         \* side of the sampler's working canvas (1600 in the source)

VARIABLES
    stage,              \* where the set followed is in its life
    image,              \* the decoded bitmap handed to the sampler
    particleDensity,    \* props.particleDensity
    particles,          \* userData of the set followed
    farPositions,       \* userData.positions as the seeding loop left them
    animElapsed,        \* Date.now() - startTime of the set's animation loop
    initialElapsed,     \* the same of an animateInitial loop still running when the set is exploded
    random,             \* the values Math.random() returns, and how many were drawn
    innerWidth,         \* window.innerWidth
    innerHeight,        \* window.innerHeight
    targetCameraZ,
    framing,            \* how the last operation called updateCameraForParticles
    lastOp,             \* the operation that ran last on the set followed
    currentCameraZ,
    isCameraZoomedOut,
    showingWork,
    frames,             \* display frames the render loop has drawn
    workImagePlanes,    \* the array workImagePlanes: the planes in it, by identity
    planes,             \* the work image planes created so far, by identity
    galleryRuns,        \* showWorkGallery calls suspended in createWorkImagePlanes
    galleryStarted      \* number of showWorkGallery calls so far

\* ------------------------------------------------ the parent, App.vue
\* The last part of the model follows loadImagesFromGooglePhotos in the parent
\* component, which fetches the image list it binds to the viewer.
VARIABLES
    albumImages,        \* images.value of App.vue
    loading,            \* loading.value
    error,              \* error.value; Null is null
    loadPc,             \* where loadImagesFromGooglePhotos is: "idle", "public", "oauth"
    loadCalls,          \* number of calls of loadImagesFromGooglePhotos so far
    publicOutcome,      \* how getImagesFromPublicAlbum ended in the last call
    oauthCalled,        \* getImagesFromAlbum was called in the last call
    obtained            \* the last call assigned images.value

pvars == << stage, image, particleDensity, particles, farPositions, animElapsed,
            initialElapsed, random, innerWidth, innerHeight, targetCameraZ, framing,
            lastOp, currentCameraZ, isCameraZoomedOut, showingWork, frames,
            workImagePlanes, planes, galleryRuns, galleryStarted,
            albumImages, loading, error, loadPc, loadCalls, publicOutcome,
            oauthCalled, obtained >>

\* IEEE numbers: finite ones in thousandths, Infinity and NaN.
Fin(v) == [ k |-> "finite", v |-> v ]
Infinity == [ k |-> "Infinity", v |-> 0 ]
NaN == [ k |-> "NaN", v |-> 0 ]

DefaultCameraZ == 5000      \* targetCameraZ = 5

\* error.value = null
Null == "null"

NoImage == [ w |-> 0, h |-> 0, px |-> << >> ]
NoParticles ==
    [ positions |-> << >>, originalPositions |-> << >>, velocities |-> << >>,
      colors |-> << >>, delays |-> << >>, count |-> 0 ]

\* Before the first image is requested; initScene has set targetCameraZ = 5
\* and currentCameraZ = 5.
InitParticles ==
    /\ stage = "none"
    /\ image = NoImage
    /\ particleDensity = [ num |-> 1, den |-> 10 ]
    /\ particles = NoParticles
    /\ farPositions = << >>
    /\ animElapsed = 0
    /\ initialElapsed = 0
    /\ random = [ stream |-> << 0 >>, pos |-> 0 ]
    /\ innerWidth = 2
    /\ innerHeight = 1
    /\ targetCameraZ = Fin(DefaultCameraZ)
    /\ framing = "none"
    /\ lastOp = "setup"
    /\ currentCameraZ = Fin(DefaultCameraZ)
    /\ isCameraZoomedOut = FALSE
    /\ showingWork = FALSE
    /\ frames = 0
    /\ workImagePlanes = << >>
    /\ planes = << >>
    /\ galleryRuns = {}
    /\ galleryStarted = 0
    /\ albumImages = << >>
    /\ loading = TRUE
    /\ error = Null
    /\ loadPc = "idle"
    /\ loadCalls = 0
    /\ publicOutcome = "none"
    /\ oauthCalled = FALSE
    /\ obtained = FALSE

vars == << images, autoAdvance, phase, sets, currentParticles, nextParticles,
           currentImageIndex, isTransitioning, animationFrameId, autoAdvanceTimer,
           rafQueue, frameRun, timers, loads, loadsStarted, advanceOutcome,
           failedAdvance, requestLen, rendered, lastEvent, lastReturn,
           stage, image, particleDensity, particles, farPositions, animElapsed,
           initialElapsed, random, innerWidth, innerHeight, targetCameraZ, framing,
           lastOp, currentCameraZ, isCameraZoomedOut, showingWork, frames,
           workImagePlanes, planes, galleryRuns, galleryStarted,
           albumImages, loading, error, loadPc, loadCalls, publicOutcome,
           oauthCalled, obtained >>

\* ---------------------------------------------------------------- helpers
SeqIds(q) == { q[i].id : i \in 1..Len(q) }

\* requestAnimationFrame returns a handle no pending callback holds.
FreshFrameId(q, fr) ==
    CHOOSE n \in 1..(Len(q) + Len(fr) + 1) :
        /\ n \notin (SeqIds(q) \cup SeqIds(fr))
        /\ \A m \in 1..(n - 1) : m \in (SeqIds(q) \cup SeqIds(fr))

\* setTimeout returns a handle no pending timer holds.
FreshTimerId(ts) ==
    CHOOSE n \in 1..(Cardinality(ts) + 1) :
        /\ n \notin { t.id : t \in ts }
        /\ \A m \in 1..(n - 1) : m \in { t.id : t \in ts }

\* cancelAnimationFrame(h): the callback with handle h, if pending, is dropped.
CancelFrame(q, h) == SelectSeq(q, LAMBDA cb : cb.id # h)

\* clearTimeout(h)
ClearTimer(ts, h) == { t \in ts : t.id # h }

\* Opacities are kept in thousandths.
InitialOpacity == 900       \* new MeshPhongMaterial({ opacity: 0.9 })

\* A particle set as imageToParticles returns it: not in the scene, nothing
\* disposed, no position update pass applied yet.
NewSet(url) ==
    [ url |-> url, inScene |-> FALSE, geomDisposed |-> 0, matDisposed |-> 0,
      usedAfterDispose |-> FALSE, opacity |-> InitialOpacity, updates |-> 0 ]

AddSet(S, s, url) == [ x \in (DOMAIN S) \cup {s} |-> IF x = s THEN NewSet(url) ELSE S[x] ]

\* One pass of position writes (userData.positions, setMatrixAt) over set s.
Touch(S, s) ==
    [ S EXCEPT ![s].usedAfterDispose =
          @ \/ S[s].geomDisposed > 0 \/ S[s].matDisposed > 0,
               ![s].updates = @ + 1 ]

\* material.opacity = o on set s
SetOpacity(S, s, o) ==
    [ S EXCEPT ![s].usedAfterDispose =
          @ \/ S[s].geomDisposed > 0 \/ S[s].matDisposed > 0,
               ![s].opacity = o ]

\* Math.min(elapsed / duration, 1), in thousandths
Progress(elapsed, duration) ==
    IF elapsed >= duration THEN 1000 ELSE (elapsed * 1000) \div duration

\* easeInOutCubic(t) for t in thousandths, in thousandths
EaseInOutCubicOf(t) ==
    IF t < 500 THEN (4 * t * t * t) \div 1000000
    ELSE 1000 - ((2000 - 2 * t) * (2000 - 2 * t) * (2000 - 2 * t)) \div 2000000

\* easeInOutCubic(Math.min(elapsed / duration, 1)), in thousandths
EaseInOutCubic(elapsed, duration) == EaseInOutCubicOf(Progress(elapsed, duration))

\* 0.9 * easeProgress, in thousandths
FadeIn(elapsed) == (900 * EaseInOutCubic(elapsed, TransitionDuration)) \div 1000

\* 0.9 * (1 - easeProgress), in thousandths
FadeOut(elapsed) == (900 * (1000 - EaseInOutCubic(elapsed, TransitionDuration))) \div 1000

SceneAdd(S, s) == [ S EXCEPT ![s].inScene = TRUE ]
SceneRemove(S, s) == [ S EXCEPT ![s].inScene = FALSE ]

\* geometry.dispose(); material.dispose()
Dispose(S, s) ==
    [ S EXCEPT ![s].geomDisposed = @ + 1, ![s].matDisposed = @ + 1 ]

Init ==
    /\ images \in ImageLists
    /\ autoAdvance \in BOOLEAN
    /\ phase = "created"
    /\ sets = << >>
    /\ currentParticles = 0
    /\ nextParticles = 0
    /\ currentImageIndex = 0
    /\ isTransitioning = FALSE
    /\ animationFrameId = 0
    /\ autoAdvanceTimer = 0
    /\ rafQueue = << >>
    /\ frameRun = << >>
    /\ timers = {}
    /\ loads = {}
    /\ loadsStarted = 0
    /\ advanceOutcome = "none"
    /\ failedAdvance = FALSE
    /\ requestLen = 0
    /\ rendered = FALSE
    /\ lastEvent = "setup"
    /\ lastReturn = "end"
    /\ InitParticles

\* ------------------------------------------------------- startAutoAdvance
\* Mutant: startAutoAdvance() sets a timer without clearing the previous one.
StartAutoAdvance_KeepsPrevious(ts) ==
    ts \cup { [ id |-> FreshTimerId(ts), remaining |-> AutoAdvanceInterval ] }

\* The timers after startAutoAdvance(): the previous one cleared, a new one set.
StartAutoAdvance(ts) ==
    LET kept == ClearTimer(ts, autoAdvanceTimer)
    IN  kept \cup { [ id |-> FreshTimerId(kept), remaining |-> AutoAdvanceInterval ] }

\* The handle startAutoAdvance() stores in autoAdvanceTimer.
StartAutoAdvanceHandle(ts) == FreshTimerId(ClearTimer(ts, autoAdvanceTimer))

\* Mutant: the completion branches never start the auto-advance timer.
AutoAdvanceEnabled_Never == FALSE

\* `if (props.autoAdvance) startAutoAdvance()`
AutoAdvanceEnabled == autoAdvance

MaybeStartAutoAdvance ==
    IF AutoAdvanceEnabled
    THEN /\ timers' = StartAutoAdvance(timers)
         /\ autoAdvanceTimer' = StartAutoAdvanceHandle(timers)
    ELSE UNCHANGED << timers, autoAdvanceTimer >>

\* ------------------------------------------------------ animateTransition
\* baseProgress = min(elapsed / duration, 1) has reached 1
TransitionDone(elapsed) == elapsed >= TransitionDuration

\* One call of the closure animateTransition created for index nextIndex,
\* elapsed = Date.now() - startTime; np, S, q, fr are nextParticles, the sets,
\* the callbacks requested for the next frame and the rest of the running
\* frame at entry.
AnimateTransition(elapsed, nextIndex, np, S, q, fr) ==
    LET S1 == IF currentParticles # 0
              THEN SetOpacity(Touch(S, currentParticles), currentParticles, FadeOut(elapsed))
              ELSE S
        S2 == IF np # 0 THEN SetOpacity(Touch(S1, np), np, FadeIn(elapsed)) ELSE S1
        h  == FreshFrameId(q, fr)
    IN  IF ~TransitionDone(elapsed)
        THEN /\ rafQueue' = Append(q, [ id |-> h, kind |-> "transition",
                                        elapsed |-> elapsed, nextIndex |-> nextIndex ])
             /\ animationFrameId' = h
             /\ sets' = S2
             /\ nextParticles' = np
             /\ lastReturn' = "again"
             /\ UNCHANGED << currentParticles, currentImageIndex, isTransitioning,
                             timers, autoAdvanceTimer >>
        ELSE /\ sets' = IF currentParticles # 0
                        THEN Dispose(SceneRemove(S2, currentParticles), currentParticles)
                        ELSE S2
             /\ currentParticles' = np
             /\ nextParticles' = 0
             /\ currentImageIndex' = nextIndex
             /\ isTransitioning' = FALSE
             /\ rafQueue' = q
             /\ lastReturn' = "complete"
             /\ MaybeStartAutoAdvance
             /\ UNCHANGED animationFrameId

\* --------------------------------------------------------- animateInitial
\* One call of the closure animateInitial, elapsed = Date.now() - startTime;
\* cp is currentParticles at entry.
AnimateInitial(elapsed, cp, S, q, fr) ==
    LET h == FreshFrameId(q, fr)
    IN  /\ sets' = IF cp # 0 THEN SetOpacity(Touch(S, cp), cp, FadeIn(elapsed)) ELSE S
        /\ IF ~TransitionDone(elapsed)
           THEN /\ rafQueue' = Append(q, [ id |-> h, kind |-> "initial",
                                           elapsed |-> elapsed, nextIndex |-> 0 ])
                /\ animationFrameId' = h
                /\ lastReturn' = "again"
                /\ UNCHANGED << timers, autoAdvanceTimer >>
           ELSE /\ rafQueue' = q
                /\ lastReturn' = "complete"
                /\ MaybeStartAutoAdvance
                /\ UNCHANGED animationFrameId

\* ------------------------------------------------------------ frame loop
\* A display refresh begins: the callbacks requested so far form this frame.
\* A timer that is due fires before time moves on; time moves on by one unit.
BeginFrame ==
    /\ phase # "created"
    /\ frameRun = << >>
    /\ \A t \in timers : t.remaining > 0
    /\ timers' = { [ t EXCEPT !.remaining = @ - 1 ] : t \in timers }
    /\ frameRun' = [ i \in 1..Len(rafQueue) |->
                       IF rafQueue[i].kind = "animate" THEN rafQueue[i]
                       ELSE [ rafQueue[i] EXCEPT !.elapsed = @ + 1 ] ]
    /\ rafQueue' = << >>
    /\ lastEvent' = "frame"
    /\ lastReturn' = "end"
    /\ UNCHANGED << images, autoAdvance, phase, sets, currentParticles, nextParticles,
                    currentImageIndex, isTransitioning, animationFrameId,
                    autoAdvanceTimer, loads, loadsStarted, advanceOutcome,
                    failedAdvance >>
    /\ rendered' = FALSE
    /\ UNCHANGED pvars
    /\ UNCHANGED requestLen

\* Mutant: the render loop also runs a position pass over the current set.
RunAnimate_MovesParticles ==
    /\ frameRun # << >>
    /\ Head(frameRun).kind = "animate"
    /\ LET h == FreshFrameId(rafQueue, Tail(frameRun))
       IN  /\ rafQueue' = Append(rafQueue, [ id |-> h, kind |-> "animate",
                                             elapsed |-> 0, nextIndex |-> 0 ])
           /\ animationFrameId' = h
    /\ frameRun' = Tail(frameRun)
    /\ sets' = IF currentParticles # 0 THEN Touch(sets, currentParticles) ELSE sets
    /\ lastEvent' = "animate"
    /\ lastReturn' = "again"
    /\ rendered' = TRUE
    /\ UNCHANGED << images, autoAdvance, phase, currentParticles, nextParticles,
                    currentImageIndex, isTransitioning, autoAdvanceTimer, timers, loads,
                    loadsStarted, advanceOutcome, failedAdvance, requestLen >>
    /\ UNCHANGED pvars

\* The render loop `animate`: renders and requests itself again.
RunAnimate ==
    /\ frameRun # << >>
    /\ Head(frameRun).kind = "animate"
    /\ LET h == FreshFrameId(rafQueue, Tail(frameRun))
       IN  /\ rafQueue' = Append(rafQueue, [ id |-> h, kind |-> "animate",
                                             elapsed |-> 0, nextIndex |-> 0 ])
           /\ animationFrameId' = h
    /\ frameRun' = Tail(frameRun)
    /\ lastEvent' = "animate"
    /\ lastReturn' = "again"
    /\ UNCHANGED << images, autoAdvance, phase, sets, currentParticles,
                    nextParticles, currentImageIndex, isTransitioning,
                    autoAdvanceTimer, timers, loads, loadsStarted, advanceOutcome,
                    failedAdvance >>
    /\ rendered' = TRUE
    /\ UNCHANGED pvars
    /\ UNCHANGED requestLen

RunAnimateTransition ==
    /\ frameRun # << >>
    /\ Head(frameRun).kind = "transition"
    /\ AnimateTransition(Head(frameRun).elapsed, Head(frameRun).nextIndex,
                         nextParticles, sets, rafQueue, Tail(frameRun))
    /\ frameRun' = Tail(frameRun)
    /\ lastEvent' = "animateTransition"
    /\ UNCHANGED << images, autoAdvance, phase, loads, loadsStarted,
                    advanceOutcome, failedAdvance >>
    /\ UNCHANGED << requestLen, rendered >>
    /\ UNCHANGED pvars

RunAnimateInitial ==
    /\ frameRun # << >>
    /\ Head(frameRun).kind = "initial"
    /\ AnimateInitial(Head(frameRun).elapsed, currentParticles, sets, rafQueue,
                      Tail(frameRun))
    /\ frameRun' = Tail(frameRun)
    /\ lastEvent' = "animateInitial"
    /\ UNCHANGED << images, autoAdvance, phase, currentParticles, nextParticles,
                    currentImageIndex, isTransitioning, loads, loadsStarted,
                    advanceOutcome, failedAdvance >>
    /\ UNCHANGED << requestLen, rendered >>
    /\ UNCHANGED pvars

\* ------------------------------------------------------- loadInitialImage
\* loadInitialImage() with image list imgs and index idx gets past its two
\* early returns and calls imageToParticles.
InitialLoadStarts(imgs, idx) ==
    /\ Len(imgs) # 0
    /\ idx < Len(imgs)
    /\ imgs[idx + 1] # ""

\* loadInitialImage() up to its await.
LoadInitialImage(imgs, idx) ==
    IF InitialLoadStarts(imgs, idx)
    THEN /\ loadsStarted < MaxLoads
         /\ loadsStarted' = loadsStarted + 1
         /\ loads' = loads \cup { [ id |-> loadsStarted + 1, kind |-> "initial",
                                    url |-> imgs[idx + 1], nextIndex |-> 0 ] }
    ELSE UNCHANGED << loads, loadsStarted >>

\* ------------------------------------------------------- transitionToNext
\* Mutant: the guard forgets the busy flag.
TransitionGuard_NoBusyFlag == Len(images) = 0

\* `if (isTransitioning || props.images.length === 0) return`
TransitionGuard == isTransitioning \/ Len(images) = 0

\* Mutant: the advance targets the image already shown.
NextIndex_Stays == currentImageIndex

NextIndex == (currentImageIndex + 1) % Len(images)

\* Mutant: the return on a missing locator leaves the busy flag set.
TransitionToNext_NoUrlKeepsBusy ==
    IF TransitionGuard
    THEN /\ lastReturn' = "guard"
         /\ UNCHANGED << isTransitioning, loads, loadsStarted, advanceOutcome, requestLen >>
    ELSE IF images[NextIndex + 1] = ""
    THEN /\ lastReturn' = "nourl"
         /\ isTransitioning' = TRUE
         /\ advanceOutcome' = "fulfilled"
         /\ UNCHANGED << loads, loadsStarted, requestLen >>
    ELSE /\ loadsStarted < MaxLoads
         /\ lastReturn' = "await"
         /\ isTransitioning' = TRUE
         /\ advanceOutcome' = "pending"
         /\ requestLen' = Len(images)
         /\ loadsStarted' = loadsStarted + 1
         /\ loads' = loads \cup { [ id |-> loadsStarted + 1, kind |-> "next",
                                    url |-> images[NextIndex + 1],
                                    nextIndex |-> NextIndex ] }

\* transitionToNext() up to its first return or its await.
TransitionToNext ==
    IF TransitionGuard
    THEN /\ lastReturn' = "guard"
         /\ UNCHANGED << isTransitioning, loads, loadsStarted, advanceOutcome, requestLen >>
    ELSE IF images[NextIndex + 1] = ""
    THEN /\ lastReturn' = "nourl"
         /\ isTransitioning' = FALSE
         /\ advanceOutcome' = "fulfilled"
         /\ UNCHANGED << loads, loadsStarted, requestLen >>
    ELSE /\ loadsStarted < MaxLoads
         /\ lastReturn' = "await"
         /\ isTransitioning' = TRUE
         /\ advanceOutcome' = "pending"
         /\ requestLen' = Len(images)
         /\ loadsStarted' = loadsStarted + 1
         /\ loads' = loads \cup { [ id |-> loadsStarted + 1, kind |-> "next",
                                    url |-> images[NextIndex + 1],
                                    nextIndex |-> NextIndex ] }

\* The parent calls the exposed method next().
NextCall ==
    /\ phase = "mounted"
    /\ frameRun = << >>
    /\ TransitionToNext
    /\ failedAdvance' = FALSE
    /\ lastEvent' = "next"
    /\ UNCHANGED << images, autoAdvance, phase, sets, currentParticles,
                    nextParticles, currentImageIndex, animationFrameId,
                    autoAdvanceTimer, rafQueue, frameRun, timers >>
    /\ UNCHANGED rendered
    /\ UNCHANGED pvars

\* The auto-advance timer t fires.
TimerFire(t) ==
    /\ t \in timers
    /\ frameRun = << >>
    /\ t.remaining = 0
    /\ timers' = timers \ {t}
    /\ TransitionToNext
    /\ lastEvent' = "timer"
    /\ UNCHANGED << images, autoAdvance, phase, sets, currentParticles,
                    nextParticles, currentImageIndex, animationFrameId,
                    autoAdvanceTimer, rafQueue, frameRun, failedAdvance >>
    /\ UNCHANGED rendered
    /\ UNCHANGED pvars

\* ------------------------------------------- imageToParticles settles
\* The image of load l was decoded: transitionToNext resumes after its await,
\* seeds the new set far away, adds it to the scene and calls animateTransition.
LoadNextResolves(l) ==
    /\ l \in loads
    /\ l.kind = "next"
    /\ frameRun = << >>
    /\ loads' = loads \ {l}
    /\ AnimateTransition(0, l.nextIndex, l.id,
                         SceneAdd(Touch(AddSet(sets, l.id, l.url), l.id), l.id),
                         rafQueue, frameRun)
    /\ advanceOutcome' = "fulfilled"
    /\ lastEvent' = "loadNextResolves"
    /\ UNCHANGED << images, autoAdvance, phase, frameRun, loadsStarted,
                    failedAdvance >>
    /\ UNCHANGED << requestLen, rendered >>
    /\ UNCHANGED pvars

\* Mutant: the catch block leaves the busy flag set.
LoadNextFails_KeepsBusy(l) ==
    /\ l \in loads
    /\ l.kind = "next"
    /\ frameRun = << >>
    /\ loads' = loads \ {l}
    /\ advanceOutcome' = "fulfilled"
    /\ failedAdvance' = TRUE
    /\ lastEvent' = "loadNextFails"
    /\ lastReturn' = "catch"
    /\ UNCHANGED << images, autoAdvance, phase, sets, currentParticles,
                    nextParticles, currentImageIndex, isTransitioning,
                    animationFrameId, autoAdvanceTimer, rafQueue, frameRun, timers,
                    loadsStarted >>
    /\ UNCHANGED << requestLen, rendered >>
    /\ UNCHANGED pvars

\* The image of load l failed to load: the catch block of transitionToNext.
LoadNextFails(l) ==
    /\ l \in loads
    /\ l.kind = "next"
    /\ frameRun = << >>
    /\ loads' = loads \ {l}
    /\ isTransitioning' = FALSE
    /\ advanceOutcome' = "fulfilled"
    /\ failedAdvance' = TRUE
    /\ lastEvent' = "loadNextFails"
    /\ lastReturn' = "catch"
    /\ UNCHANGED << images, autoAdvance, phase, sets, currentParticles,
                    nextParticles, currentImageIndex, animationFrameId,
                    autoAdvanceTimer, rafQueue, frameRun, timers, loadsStarted >>
    /\ UNCHANGED << requestLen, rendered >>
    /\ UNCHANGED pvars

\* loadInitialImage resumes after its await: the new set becomes current, is
\* seeded far away and added to the scene, and animateInitial is called.
LoadInitialResolves(l) ==
    /\ l \in loads
    /\ l.kind = "initial"
    /\ frameRun = << >>
    /\ loads' = loads \ {l}
    /\ currentParticles' = l.id
    /\ AnimateInitial(0, l.id,
                      SceneAdd(Touch(AddSet(sets, l.id, l.url), l.id), l.id),
                      rafQueue, frameRun)
    /\ lastEvent' = "loadInitialResolves"
    /\ UNCHANGED << images, autoAdvance, phase, nextParticles,
                    currentImageIndex, isTransitioning, frameRun, loadsStarted,
                    advanceOutcome, failedAdvance >>
    /\ UNCHANGED << requestLen, rendered >>
    /\ UNCHANGED pvars

\* The catch block of loadInitialImage.
LoadInitialFails(l) ==
    /\ l \in loads
    /\ l.kind = "initial"
    /\ frameRun = << >>
    /\ loads' = loads \ {l}
    /\ lastEvent' = "loadInitialFails"
    /\ lastReturn' = "catch"
    /\ UNCHANGED << images, autoAdvance, phase, sets, currentParticles,
                    nextParticles, currentImageIndex, isTransitioning,
                    animationFrameId, autoAdvanceTimer, rafQueue, frameRun, timers,
                    loadsStarted, advanceOutcome, failedAdvance >>
    /\ UNCHANGED << requestLen, rendered >>
    /\ UNCHANGED pvars

\* ------------------------------------------------------------- lifecycle
\* onMounted: initScene(); animate(); loadInitialImage()
Mount ==
    /\ phase = "created"
    /\ phase' = "mounted"
    /\ rafQueue' = << [ id |-> 1, kind |-> "animate", elapsed |-> 0, nextIndex |-> 0 ] >>
    /\ animationFrameId' = 1
    /\ LoadInitialImage(images, currentImageIndex)
    /\ lastEvent' = "mount"
    /\ lastReturn' = "end"
    /\ UNCHANGED << images, autoAdvance, sets, currentParticles, nextParticles,
                    currentImageIndex, isTransitioning, autoAdvanceTimer, frameRun,
                    timers, advanceOutcome, failedAdvance >>
    /\ UNCHANGED << requestLen, rendered >>
    /\ UNCHANGED pvars

\* watch(() => props.images): the parent binds another list.
WatchImages(imgs) ==
    /\ phase = "mounted"
    /\ frameRun = << >>
    /\ imgs \in ImageLists
    /\ imgs # images
    /\ images' = imgs
    /\ IF Len(imgs) > 0 /\ ~isTransitioning
       THEN /\ currentImageIndex' = 0
            /\ IF currentParticles # 0
               THEN /\ sets' = Dispose(SceneRemove(sets, currentParticles), currentParticles)
                    /\ currentParticles' = 0
               ELSE UNCHANGED << sets, currentParticles >>
            /\ LoadInitialImage(imgs, 0)
            /\ lastReturn' = "reload"
       ELSE /\ lastReturn' = "end"
            /\ UNCHANGED << currentImageIndex, sets, currentParticles, loads, loadsStarted >>
    /\ failedAdvance' = FALSE
    /\ lastEvent' = "watch"
    /\ UNCHANGED << autoAdvance, phase, nextParticles, isTransitioning,
                    animationFrameId, autoAdvanceTimer, rafQueue, frameRun, timers,
                    advanceOutcome >>
    /\ UNCHANGED << requestLen, rendered >>
    /\ UNCHANGED pvars

\* onUnmounted
Unmount ==
    /\ phase = "mounted"
    /\ frameRun = << >>
    /\ phase' = "unmounted"
    /\ rafQueue' = CancelFrame(rafQueue, animationFrameId)
    /\ timers' = ClearTimer(timers, autoAdvanceTimer)
    /\ LET S1 == IF currentParticles # 0 THEN Dispose(sets, currentParticles) ELSE sets
       IN  sets' = IF nextParticles # 0 THEN Dispose(S1, nextParticles) ELSE S1
    /\ lastEvent' = "unmount"
    /\ lastReturn' = "end"
    /\ UNCHANGED << images, autoAdvance, currentParticles, nextParticles,
                    currentImageIndex, isTransitioning, animationFrameId,
                    autoAdvanceTimer, frameRun, loads, loadsStarted, advanceOutcome,
                    failedAdvance >>
    /\ UNCHANGED << requestLen, rendered >>
    /\ UNCHANGED pvars

Next ==
    \/ Mount
    \/ BeginFrame
    \/ RunAnimate
    \/ RunAnimateTransition
    \/ RunAnimateInitial
    \/ NextCall
    \/ \E t \in timers : TimerFire(t)
    \/ \E l \in loads : LoadNextResolves(l)
    \/ \E l \in loads : LoadNextFails(l)
    \/ \E l \in loads : LoadInitialResolves(l)
    \/ \E l \in loads : LoadInitialFails(l)
    \/ \E imgs \in ImageLists : WatchImages(imgs)
    \/ Unmount

Spec == Init /\ [][Next]_vars

\* =========================================================================
\* One particle set in detail: sampler, far seeding, per-frame updates, camera
\* =========================================================================

\* ------------------------------------------------------------- numbers
Min2(a, b) == IF a <= b THEN a ELSE b
Max2(a, b) == IF a >= b THEN a ELSE b

\* a / b on fixed-point numbers, rounded toward zero
Trunc(a, b) == IF a >= 0 THEN a \div b ELSE -((-a) \div b)

\* Math.round(n / d) for n >= 0, d > 0
RoundDiv(n, d) == (2 * n + d) \div (2 * d)

RECURSIVE SqrtBetween(_, _, _)
SqrtBetween(n, lo, hi) ==
    IF lo >= hi THEN lo
    ELSE LET mid == (lo + hi + 1) \div 2
         IN  IF mid * mid <= n THEN SqrtBetween(n, mid, hi)
             ELSE SqrtBetween(n, lo, mid - 1)

\* Math.sqrt(x * x + y * y) for x, y in thousandths, rounded down
Hypot(x, y) == SqrtBetween(x * x + y * y, 0, Max2(x, -x) + Max2(y, -y))

\* Math.random(): the k-th value drawn from now on, in thousandths of [0, 1)
Random(rnd, k) == rnd.stream[((rnd.pos + k) % Len(rnd.stream)) + 1]

\* the generator after n draws
Drawn(rnd, n) == [ rnd EXCEPT !.pos = (@ + n) % Len(rnd.stream) ]

\* The sequences of values Math.random() may return.
RandomStreams == { << 0, 999, 500 >> }

\* arr[idx] ?? 0
ArrayLoad(arr, idx) == IF idx < Len(arr) THEN arr[idx + 1] ELSE 0

\* the array holding the elements of the triples of s, in order
Flatten(s) == [ j \in 1..(3 * Len(s)) |-> s[((j - 1) \div 3) + 1][((j - 1) % 3) + 1] ]

\* --------------------------------------------------------------- inputs
ImageSides == { 1, 2 }

\* An opaque red pixel, an opaque blue one, a fully transparent white one.
PixelValues ==
    { [ r |-> 255, g |-> 0, b |-> 0, a |-> 255 ],
      [ r |-> 0, g |-> 0, b |-> 255, a |-> 255 ],
      [ r |-> 255, g |-> 255, b |-> 255, a |-> 0 ] }

\* Decoded bitmaps: naturalWidth, naturalHeight and the pixel at each (x, y).
Bitmaps ==
    UNION { { [ w |-> w, h |-> h, px |-> f ] :
                f \in [ (0..(w - 1)) \X (0..(h - 1)) -> PixelValues ] } :
            w \in ImageSides, h \in ImageSides }

\* The bitmaps sampled: every one of up to two pixels, and the four-pixel
\* ones that are opaque throughout or transparent throughout.
Images ==
    { img \in Bitmaps :
        \/ img.w * img.h < 4
        \/ \A c, d \in DOMAIN img.px : img.px[c].a = img.px[d].a }

\* props.particleDensity as a fraction in (0, 1]
Densities == { [ num |-> 1, den |-> 1 ], [ num |-> 1, den |-> 2 ], [ num |-> 1, den |-> 10 ] }

\* --------------------------------------------------------------- sampler
\* Math.max(1, Math.floor(1 / props.particleDensity))
Step(density) == Max2(1, density.den \div density.num)

\* The rectangle drawImage draws the bitmap into: drawX, drawY, drawW, drawH.
DrawRect(img) ==
    IF img.w >= img.h
    THEN [ x |-> 0,
           y |-> RoundDiv(CanvasSize * img.w - CanvasSize * img.h, 2 * img.w),
           w |-> CanvasSize,
           h |-> RoundDiv(CanvasSize * img.h, img.w) ]
    ELSE [ x |-> RoundDiv(CanvasSize * img.h - CanvasSize * img.w, 2 * img.h),
           y |-> 0,
           w |-> RoundDiv(CanvasSize * img.w, img.h),
           h |-> CanvasSize ]

\* ctx.fillStyle = '#000000'; ctx.fillRect(0, 0, canvasSize, canvasSize)
Background == [ r |-> 0, g |-> 0, b |-> 0, a |-> 255 ]

\* drawing pixel src over pixel dst (source-over compositing, 8 bit channels)
SourceOver(src, dst) ==
    LET outA == src.a + (dst.a * (255 - src.a)) \div 255
        mix(s, d) == IF outA = 0 THEN 0
                     ELSE (s * src.a + ((d * dst.a) \div 255) * (255 - src.a)) \div outA
    IN  [ r |-> mix(src.r, dst.r), g |-> mix(src.g, dst.g),
          b |-> mix(src.b, dst.b), a |-> outA ]

\* ctx.getImageData after the fill and drawImage: the canvas pixel at (x, y).
\* The bitmap is scaled into DrawRect by taking the bitmap pixel each canvas
\* pixel falls in; the smoothing filter's blending across pixel borders is
\* left out.
GetImageData(img, x, y) ==
    LET d == DrawRect(img)
    IN  IF /\ x >= d.x /\ x < d.x + d.w
           /\ y >= d.y /\ y < d.y + d.h
        THEN SourceOver(img.px[<< ((x - d.x) * img.w) \div d.w,
                                  ((y - d.y) * img.h) \div d.h >>], Background)
        ELSE Background

\* pixels.length
PixelsLength == CanvasSize * CanvasSize * 4

\* Mutant: the loops are nested the other way round (x outside, y inside).
Visited_ColumnMajor(step) ==
    LET perRow == (CanvasSize + step - 1) \div step
    IN  [ k \in 1..(perRow * perRow) |->
            << ((k - 1) \div perRow) * step, ((k - 1) % perRow) * step >> ]

\* The canvas pixels << x, y >> the two nested loops visit, in order.
Visited(step) ==
    LET perRow == (CanvasSize + step - 1) \div step
    IN  [ k \in 1..(perRow * perRow) |->
            << ((k - 1) % perRow) * step, ((k - 1) \div perRow) * step >> ]

\* if (index + 3 >= pixels.length) continue; if (a < 10) continue
Skipped(img, c) ==
    \/ (c[2] * CanvasSize + c[1]) * 4 + 3 >= PixelsLength
    \/ GetImageData(img, c[1], c[2]).a < 10

\* (x / canvas.width) * 2 - 1
NormalizedX_Unshifted(x) == (x * 2 * 1000) \div CanvasSize

NormalizedX(x) == (x * 2 * 1000) \div CanvasSize - 1000

\* 1 - (y / canvas.height) * 2
NormalizedY_NotFlipped(y) == (y * 2 * 1000) \div CanvasSize - 1000

NormalizedY(y) == 1000 - (y * 2 * 1000) \div CanvasSize

\* delays[i] = Math.random() * 2000, for i < particleCount
Delays_OneMore(particleCount, rnd) ==
    [ i \in 1..(particleCount + 1) |-> (Random(rnd, i - 1) * 2000) \div 1000 ]

Delays(particleCount, rnd) ==
    [ i \in 1..particleCount |-> (Random(rnd, i - 1) * 2000) \div 1000 ]

\* The set imageToParticles resolves with (its userData).
ImageToParticles(img, density, rnd) ==
    LET kept == SelectSeq(Visited(Step(density)), LAMBDA c : ~Skipped(img, c))
        pixel(i) == GetImageData(img, kept[i][1], kept[i][2])
        positions ==
            Flatten([ i \in 1..Len(kept) |->
                        << NormalizedX(kept[i][1]), NormalizedY(kept[i][2]), 0 >> ])
        originalPositions ==
            Flatten([ i \in 1..Len(kept) |->
                        << NormalizedX(kept[i][1]), NormalizedY(kept[i][2]), 0 >> ])
        colors ==
            Flatten([ i \in 1..Len(kept) |-> << pixel(i).r, pixel(i).g, pixel(i).b >> ])
        velocities ==
            Flatten([ i \in 1..Len(kept) |->
                        << -NormalizedX(kept[i][1]) * 100,
                           -NormalizedY(kept[i][2]) * 10,
                           (Random(rnd, i - 1) - 500) * 2 >> ])
        particleCount == Len(positions) \div 3
        instanceColors == [ j \in 1..(particleCount * 3) |-> ArrayLoad(colors, j - 1) ]
    IN  [ positions |-> positions,
          originalPositions |-> originalPositions,
          velocities |-> velocities,
          colors |-> instanceColors,
          delays |-> Delays(particleCount, Drawn(rnd, Len(kept))),
          count |-> particleCount ]

\* Math.random() calls one imageToParticles run makes
SamplerDraws(ud) == 2 * ud.count

\* ---------------------------------------------------------- far seeding
\* props.transitionDuration in milliseconds
Duration == TransitionDuration * 1000

\* A loop "for (i = 0; i < count; i++)" that stores the triple triples[i] at
\* pos[i * 3], pos[i * 3 + 1], pos[i * 3 + 2]: the array after the loop.
\* Stores past the end lengthen the array.
StoreTriples(pos, count, triples) ==
    [ j \in 1..Max2(Len(pos), 3 * count) |->
        IF j <= 3 * count THEN triples[(j - 1) \div 3][((j - 1) % 3) + 1] ELSE pos[j] ]

\* Where the seeding loop puts particle i, reading its x and y from src.
FarPosition(src, i, rnd) ==
    LET x == ArrayLoad(src, i * 3)
        y == ArrayLoad(src, i * 3 + 1)
        distance == Hypot(x, y)
        scale == 10000 + distance * 5
    IN  << Trunc(x * scale, 1000), Trunc(y * scale, 1000), (Random(rnd, i) - 500) * 20 >>

\* Mutant: positions and originalPositions are one array, so the seeding loop
\* overwrites the targets too.
FarSeed_Aliased(ud, fromOriginal, rnd) ==
    LET src == IF fromOriginal THEN ud.originalPositions ELSE ud.positions
        far == [ i \in 0..(ud.count - 1) |-> FarPosition(src, i, rnd) ]
    IN  [ ud EXCEPT !.positions = StoreTriples(ud.positions, ud.count, far),
                    !.originalPositions = StoreTriples(ud.positions, ud.count, far) ]

\* userData after the seeding loop; it reads the original positions for the
\* first set (fromOriginal) and the set's own positions for an incoming set
\* (each particle's before they are overwritten).
FarSeed(ud, fromOriginal, rnd) ==
    LET src == IF fromOriginal THEN ud.originalPositions ELSE ud.positions
        far == [ i \in 0..(ud.count - 1) |-> FarPosition(src, i, rnd) ]
    IN  [ ud EXCEPT !.positions = StoreTriples(ud.positions, ud.count, far) ]

\* ------------------------------------------------------ per-frame updates
ImplodeSpeed == 20      \* implodeSpeed = 0.02
ExplodeForce == 2000    \* explodeForce = 2

\* easeInOutCubic(Math.min(Math.max(0, elapsed - delay) / duration, 1))
ParticleEase(t, delay) == EaseInOutCubic(Max2(0, t - delay), Duration)

\* easeOutExponential(Math.min(Math.max(0, elapsed - delay) / duration, 1)):
\* 1 - 2^(-10 p), with 2^(-f) for a fraction f taken on the chord 1 - f / 2
EaseOutExponential(t, delay) ==
    LET pe == Max2(0, t - delay)
        tenP == (pe * 10000) \div Duration
        whole == tenP \div 1000
        frac == tenP % 1000
    IN  IF pe >= Duration THEN 1000
        ELSE 1000 - (1000 - frac \div 2) \div (2 ^ whole)

\* Mutant: (1 + particleEaseProgress) * 10 for 1 + particleEaseProgress * 10
Toward_WrongPrecedence(cur, target, ease) ==
    cur + Trunc((target - cur) * ((ImplodeSpeed * (1000 + ease) * 10) \div 1000), 1000)

\* cur + (target - cur) * implodeSpeed * (1 + particleEaseProgress * 10)
Toward(cur, target, ease) ==
    cur + Trunc((target - cur) * ((ImplodeSpeed * (1000 + ease * 10)) \div 1000), 1000)

\* Where the implode loop of animateTransition and animateInitial puts particle i.
ImplodedPosition(ud, i, t) ==
    LET ease == ParticleEase(t, ArrayLoad(ud.delays, i))
    IN  << Toward(ArrayLoad(ud.positions, i * 3),
                  ArrayLoad(ud.originalPositions, i * 3), ease),
           Toward(ArrayLoad(ud.positions, i * 3 + 1),
                  ArrayLoad(ud.originalPositions, i * 3 + 1), ease),
           Toward(ArrayLoad(ud.positions, i * 3 + 2),
                  ArrayLoad(ud.originalPositions, i * 3 + 2), ease) >>

Implode(ud, t) ==
    LET imploded == [ i \in 0..(ud.count - 1) |-> ImplodedPosition(ud, i, t) ]
    IN  [ ud EXCEPT !.positions = StoreTriples(ud.positions, ud.count, imploded) ]

\* Where the explode loop of animateTransition puts particle i; each particle
\* draws four random numbers.
ExplodedPosition(ud, i, t, rnd) ==
    LET ease == EaseOutExponential(t, ArrayLoad(ud.delays, i))
        x == ArrayLoad(ud.originalPositions, i * 3)
        y == ArrayLoad(ud.originalPositions, i * 3 + 1)
        r == Hypot(x, y)
        \* Math.cos and Math.sin of Math.atan2(y, x); atan2(0, 0) = 0
        cos == IF r = 0 THEN 1000 ELSE Trunc(x * 1000, r)
        sin == IF r = 0 THEN 0 ELSE Trunc(y * 1000, r)
        force == (ExplodeForce * (1000 + Random(rnd, 4 * i) \div 2)) \div 1000
        vx == Trunc(Trunc((Trunc(cos * force, 1000)
                           + Trunc(Random(rnd, 4 * i + 1) - 500, 2)) * ease, 1000), 10)
        vy == Trunc(Trunc((Trunc(sin * force, 1000)
                           + Trunc(Random(rnd, 4 * i + 2) - 500, 2)) * ease, 1000), 10)
        vz == Trunc(Trunc(Trunc((Random(rnd, 4 * i + 3) - 500) * ExplodeForce, 1000)
                          * ease, 1000), 10)
    IN  << ArrayLoad(ud.positions, i * 3) + vx,
           ArrayLoad(ud.positions, i * 3 + 1) + vy,
           ArrayLoad(ud.positions, i * 3 + 2) + vz >>

Explode(ud, t, rnd) ==
    LET exploded == [ i \in 0..(ud.count - 1) |-> ExplodedPosition(ud, i, t, rnd) ]
    IN  [ ud EXCEPT !.positions = StoreTriples(ud.positions, ud.count, exploded) ]

\* ---------------------------------------------------------------- camera
CameraFov == 5

\* tanHalfFov = camera.fov * (Math.PI / 180) / 2, in hundred-thousandths
TanHalfFov == (CameraFov * 314159) \div 360

\* The window sizes the browser may report: << innerWidth, innerHeight >>.
WindowSizes == { << 2, 1 >>, << 1, 2 >>, << 0, 1 >>, << 1, 0 >>, << 0, 0 >> }

\* a / (b / 100000) rounded down, for b under 21475 (no intermediate value
\* leaves 32 bits)
OverTan(a, b) == (a \div b) * 100000 + ((a % b) * 100000) \div b

\* (extent / 2) / (tanHalfFov * screenAspect) with screenAspect = w / h, for a
\* positive extent: 0 / 0 is NaN, w / 0 is Infinity and x / Infinity is 0,
\* x / 0 is Infinity.
DistanceForWidth(extent, w, h) ==
    IF w = 0 /\ h = 0 THEN NaN
    ELSE IF h = 0 THEN Fin(0)
    ELSE IF w = 0 THEN Infinity
    ELSE Fin(OverTan(extent * h, 2 * TanHalfFov * w))

\* (extent / 2) / tanHalfFov
DistanceForHeight(extent) == Fin(OverTan(extent, 2 * TanHalfFov))

\* Math.min and Math.max of a number and a finite number
MathMin(a, b) ==
    IF a.k = "NaN" THEN NaN
    ELSE IF a.k = "Infinity" THEN b
    ELSE Fin(Min2(a.v, b.v))

MathMax(a, b) ==
    IF a.k = "NaN" THEN NaN
    ELSE IF a.k = "Infinity" THEN Infinity
    ELSE Fin(Max2(a.v, b.v))

\* The array the framer measures.
FramedPositions_Animated(ud) == ud.positions

FramedPositions(ud) == ud.originalPositions

\* new THREE.Vector3(maxX - minX, maxY - minY, maxZ - minZ) over count particles
BoundingSize(arr, count) ==
    LET xs == { ArrayLoad(arr, i * 3) : i \in 0..(count - 1) }
        ys == { ArrayLoad(arr, i * 3 + 1) : i \in 0..(count - 1) }
        max(S) == CHOOSE m \in S : \A n \in S : n <= m
        min(S) == CHOOSE m \in S : \A n \in S : m <= n
    IN  [ x |-> max(xs) - min(xs), y |-> max(ys) - min(ys) ]

\* size.x <= 0 || size.y <= 0 || !isFinite(size.x) || !isFinite(size.y);
\* the coordinates the sampler produces are all finite
SizeInvalid(size) == size.x <= 0 \/ size.y <= 0

\* !isFinite(distance) || distance <= 0 || distance > 1000
DistanceInvalid_Unchecked(distance) == distance.k # "finite"

DistanceInvalid(distance) ==
    distance.k # "finite" \/ distance.v <= 0 \/ distance.v > 1000 * 1000

\* targetCameraZ after updateCameraForParticles() got past its first line.
Framed(ud, w, h) ==
    IF ud.count = 0 \/ Len(FramedPositions(ud)) = 0 THEN Fin(DefaultCameraZ)
    ELSE LET size == BoundingSize(FramedPositions(ud), ud.count)
             distance == MathMin(DistanceForWidth(size.x, w, h), DistanceForHeight(size.y))
         IN  IF SizeInvalid(size) THEN Fin(DefaultCameraZ)
             ELSE IF DistanceInvalid(distance) THEN Fin(DefaultCameraZ)
             ELSE Fin(distance.v \div 2)

\* Mutant: the framer does not look at isTransitioning.
FramerReturns_IgnoresBusy(hasCurrent, busy) == ~hasCurrent

\* if (!camera || !currentParticles || isTransitioning) return
FramerReturns(hasCurrent, busy) == ~hasCurrent \/ busy

\* targetCameraZ after updateCameraForParticles()
UpdateCameraForParticles(old, ud, hasCurrent, busy, w, h) ==
    IF FramerReturns(hasCurrent, busy) THEN old ELSE Framed(ud, w, h)

\* targetCameraZ after updateCameraForWorkGrid() with cols x rows image planes
UpdateCameraForWorkGrid(cols, rows, w, h) ==
    LET totalWidth == cols * 500 - 500 + 250 * 2
        totalHeight == rows * 500 - 500 + 250 * 2
        most == MathMax(DistanceForWidth(totalWidth, w, h), DistanceForHeight(totalHeight))
    IN  IF most.k = "finite" THEN Fin((most.v * 11) \div 10) ELSE most

\* --------------------------------------------------------- view frustum
\* new THREE.PerspectiveCamera(5, aspect, 0.1, 1000): the tangent of half the
\* vertical field of view (2.5 degrees) in hundred-thousandths, the near and
\* the far plane in thousandths.
FrustumTan == 4366
CameraNear == 100
CameraFar == 1000000

\* camera.position in whole units: (sin(a) * 2, cos(a) * 2, currentCameraZ) for
\* a = Date.now() * 0.0001 at 0 and at a quarter turn, no mouse rotation, the
\* zoom at its initial value 5.  The camera looks at the origin.
CameraPositions == { [ x |-> 0, y |-> 2, z |-> 5 ], [ x |-> 2, y |-> 0, z |-> 5 ] }

\* The point p (in thousandths) lies in the frustum of the camera at cam
\* looking at the origin with up vector (0, 1, 0), in a w x h window.  With
\* v = p - cam, n = |cam| and m = |(cam.z, 0, -cam.x)|: the depth is
\* -(v . cam) / n, the offset to the right (v . (cam.z, 0, -cam.x)) / m and the
\* offset upward (v . ((cam.z, 0, -cam.x) x -cam)) / (m * n).
InFrustum(p, cam, w, h) ==
    LET vx == p[1] - 1000 * cam.x
        vy == p[2] - 1000 * cam.y
        vz == p[3] - 1000 * cam.z
        n == SqrtBetween(1000000 * (cam.x * cam.x + cam.y * cam.y + cam.z * cam.z),
                         0, 1000 * (cam.x + cam.y + cam.z))
        m == SqrtBetween(1000000 * (cam.x * cam.x + cam.z * cam.z),
                         0, 1000 * (cam.x + cam.z))
        depthN == -(vx * cam.x + vy * cam.y + vz * cam.z)
        right == vx * cam.z - vz * cam.x
        up == vy * (cam.x * cam.x + cam.z * cam.z) - vx * cam.x * cam.y - vz * cam.y * cam.z
        \* depth * tan(fov / 2) * m * n
        reach == (((depthN * m) \div 10000) * FrustumTan) \div 10000
    IN  /\ w > 0 /\ h > 0
        /\ depthN * 1000 >= CameraNear * n
        /\ depthN <= (CameraFar \div 1000) * n
        /\ Max2(up, -up) <= reach
        /\ ((Max2(right, -right) * n) \div 1000) * h <= reach * w

\* --------------------------------------------------------------- actions
\* The variables of the transition driver, and those of the parent, the life
\* of one set does not touch.
driverRest ==
    << images, autoAdvance, phase, sets, currentParticles, nextParticles,
       currentImageIndex, animationFrameId, autoAdvanceTimer, rafQueue, frameRun,
       timers, loads, loadsStarted, advanceOutcome, failedAdvance, requestLen,
       rendered, lastEvent, lastReturn,
       albumImages, loading, error, loadPc, loadCalls, publicOutcome, oauthCalled,
       obtained >>

\* The work gallery state no step in the life of a particle set touches.
galleryRest == << workImagePlanes, planes, galleryRuns, galleryStarted >>

\* The camera state no step in the life of a particle set touches.
cameraRest == << currentCameraZ, isCameraZoomedOut, frames >>

\* currentParticles refers to the set followed.
IsCurrent == stage \in { "initial", "current", "initialOutgoing", "outgoing" }

\* time between two display frames, in milliseconds
FrameInterval == 1000

\* how a call of updateCameraForParticles() ended
FramingOf(hasCurrent, busy) == IF FramerReturns(hasCurrent, busy) THEN "returned" ELSE "framed"

\* The parent binds another particleDensity before any image is requested.
SetParticleDensity(d) ==
    /\ stage = "none"
    /\ d # particleDensity
    /\ particleDensity' = d
    /\ framing' = "none"
    /\ lastOp' = "density"
    /\ UNCHANGED << stage, image, particles, farPositions, animElapsed, initialElapsed, random, innerWidth,
                    innerHeight, targetCameraZ, isTransitioning, showingWork, driverRest, galleryRest, cameraRest >>

\* loadInitialImage() up to its await: the set followed will be the first one.
RequestInitial ==
    /\ stage = "none"
    /\ stage' = "loadingInitial"
    /\ framing' = "none"
    /\ lastOp' = "loadInitialImage"
    /\ UNCHANGED << image, particleDensity, particles, farPositions, animElapsed, initialElapsed, random, innerWidth,
                    innerHeight, targetCameraZ, isTransitioning, showingWork, driverRest, galleryRest, cameraRest >>

\* transitionToNext() up to its await: the set followed will be the incoming one.
RequestNext ==
    /\ stage = "none"
    /\ ~isTransitioning
    /\ isTransitioning' = TRUE
    /\ stage' = "loadingNext"
    /\ framing' = "none"
    /\ lastOp' = "transitionToNext"
    /\ UNCHANGED << image, particleDensity, particles, farPositions, animElapsed, initialElapsed, random, innerWidth,
                    innerHeight, targetCameraZ, showingWork, driverRest, galleryRest, cameraRest >>

\* img.onload: the bitmap is rasterized and sampled, the promise resolves.
ImgOnload(img, stream) ==
    /\ stage \in { "loadingInitial", "loadingNext" }
    /\ LET rnd == [ stream |-> stream, pos |-> 0 ]
           ud == ImageToParticles(img, particleDensity, rnd)
       IN  /\ particles' = ud
           /\ random' = Drawn(rnd, SamplerDraws(ud))
    /\ image' = img
    /\ stage' = IF stage = "loadingInitial" THEN "sampledInitial" ELSE "sampledNext"
    /\ framing' = "none"
    /\ lastOp' = "imageToParticles"
    /\ UNCHANGED << particleDensity, farPositions, animElapsed, initialElapsed, innerWidth, innerHeight,
                    targetCameraZ, isTransitioning, showingWork, driverRest, galleryRest, cameraRest >>

\* loadInitialImage() after its await: the set becomes current, is seeded far
\* away from its original positions, added to the scene and framed, and
\* animateInitial runs for the first time.
InitialContinues ==
    /\ stage = "sampledInitial"
    /\ LET seeded == FarSeed(particles, TRUE, random)
       IN  /\ targetCameraZ' = UpdateCameraForParticles(targetCameraZ, seeded, TRUE,
                                   isTransitioning, innerWidth, innerHeight)
           /\ farPositions' = seeded.positions
           /\ particles' = Implode(seeded, 0)
    /\ framing' = FramingOf(TRUE, isTransitioning)
    /\ random' = Drawn(random, particles.count)
    /\ animElapsed' = 0
    /\ stage' = "initial"
    /\ lastOp' = "loadInitialImage"
    /\ UNCHANGED << image, particleDensity, initialElapsed, innerWidth, innerHeight, isTransitioning,
                    showingWork, driverRest, galleryRest, cameraRest >>

\* transitionToNext() after its await: the set is nextParticles, is seeded far
\* away from its own positions and added to the scene, and animateTransition
\* runs for the first time.
IncomingContinues ==
    /\ stage = "sampledNext"
    /\ LET seeded == FarSeed(particles, FALSE, random)
       IN  /\ farPositions' = seeded.positions
           /\ particles' = Implode(seeded, 0)
    /\ random' = Drawn(random, particles.count)
    /\ animElapsed' = 0
    /\ stage' = "incoming"
    /\ framing' = "none"
    /\ lastOp' = "transitionToNext"
    /\ UNCHANGED << image, particleDensity, initialElapsed, innerWidth, innerHeight, targetCameraZ,
                    isTransitioning, showingWork, driverRest, galleryRest, cameraRest >>

\* transitionToNext() up to its await while the set followed is current.
AdvanceAccepted ==
    /\ stage \in { "initial", "current" }
    /\ ~isTransitioning
    /\ isTransitioning' = TRUE
    /\ framing' = "none"
    /\ lastOp' = "transitionToNext"
    /\ UNCHANGED << stage, image, particleDensity, particles, farPositions, animElapsed, initialElapsed, random,
                    innerWidth, innerHeight, targetCameraZ, showingWork, driverRest, galleryRest, cameraRest >>

\* transitionToNext() after its await while the set followed is current:
\* animateTransition runs for the first time and explodes it. Nothing stops an
\* animateInitial loop that is still imploding the set.
OutgoingStarts ==
    /\ stage \in { "initial", "current" }
    /\ isTransitioning
    /\ particles' = Explode(particles, 0, random)
    /\ random' = Drawn(random, 4 * particles.count)
    /\ initialElapsed' = IF stage = "initial" THEN animElapsed ELSE 0
    /\ animElapsed' = 0
    /\ stage' = IF stage = "initial" THEN "initialOutgoing" ELSE "outgoing"
    /\ framing' = "none"
    /\ lastOp' = "transitionToNext"
    /\ UNCHANGED << image, particleDensity, farPositions, innerWidth, innerHeight,
                    targetCameraZ, isTransitioning, showingWork, driverRest, galleryRest, cameraRest >>

\* The sets imageToParticles can resolve with, as far as the framer looks at
\* them: their count and original positions.
SampledSets ==
    { [ count |-> ud.count, originalPositions |-> ud.originalPositions,
        positions |-> ud.positions ] :
      ud \in { ImageToParticles(img, d, [ stream |-> << 0 >>, pos |-> 0 ]) :
                 img \in Images, d \in Densities } }

\* A callback of the set's animation loop is requested.
LoopPending == stage \in { "initial", "incoming", "initialOutgoing", "outgoing" }

\* Mutant: the loop goes on until the longest delay (Math.random() * 2000) has passed too.
LoopContinues_UntilLastDelay(elapsed) == Progress(Max2(0, elapsed - 2000), Duration) < 1000

\* Mutant: the loop ends half way through the duration.
LoopContinues_UntilHalfWay(elapsed) == Progress(elapsed, Duration) < 500

\* if (baseProgress < 1) animationFrameId = requestAnimationFrame(...)
LoopContinues(elapsed) == Progress(elapsed, Duration) < 1000

\* A display frame: the callbacks of the loops that animate the set, in the
\* order they were requested.
AnimationFrame ==
    /\ LoopPending
    /\ LET t == animElapsed + FrameInterval
           done == ~LoopContinues(t)
       IN  /\ animElapsed' = t
           /\ \/ /\ stage = "initial"
                 /\ particles' = Implode(particles, t)
                 /\ stage' = IF done THEN "current" ELSE "initial"
                 /\ framing' = "none"
                 /\ lastOp' = "animateInitial"
                 /\ UNCHANGED << initialElapsed, random, targetCameraZ, isTransitioning >>
              \/ /\ stage = "incoming"
                 /\ particles' = Implode(particles, t)
                 /\ stage' = IF done THEN "current" ELSE "incoming"
                 /\ isTransitioning' = IF done THEN FALSE ELSE isTransitioning
                 /\ targetCameraZ' =
                        IF done
                        THEN UpdateCameraForParticles(targetCameraZ, particles', TRUE, FALSE,
                                                      innerWidth, innerHeight)
                        ELSE targetCameraZ
                 /\ framing' = IF done THEN FramingOf(TRUE, FALSE) ELSE "none"
                 /\ lastOp' = "animateTransition"
                 /\ UNCHANGED << initialElapsed, random >>
              \/ /\ stage = "outgoing"
                 /\ particles' = Explode(particles, t, random)
                 /\ random' = Drawn(random, 4 * particles.count)
                 /\ stage' = IF done THEN "disposed" ELSE "outgoing"
                 /\ isTransitioning' = IF done THEN FALSE ELSE isTransitioning
                 /\ IF done
                    THEN \E promoted \in SampledSets :
                            targetCameraZ' = UpdateCameraForParticles(targetCameraZ, promoted,
                                                 TRUE, FALSE, innerWidth, innerHeight)
                    ELSE targetCameraZ' = targetCameraZ
                 /\ framing' = IF done THEN "promoted" ELSE "none"
                 /\ lastOp' = "animateTransition"
                 /\ UNCHANGED initialElapsed
              \/ /\ stage = "initialOutgoing"
                 /\ LET ti == initialElapsed + FrameInterval
                        doneInitial == ~LoopContinues(ti)
                    IN  /\ particles' = Explode(Implode(particles, ti), t, random)
                        /\ initialElapsed' = IF doneInitial \/ done THEN 0 ELSE ti
                        /\ stage' = IF done THEN "disposed"
                                     ELSE IF doneInitial THEN "outgoing"
                                     ELSE "initialOutgoing"
                 /\ random' = Drawn(random, 4 * particles.count)
                 /\ isTransitioning' = IF done THEN FALSE ELSE isTransitioning
                 /\ IF done
                    THEN \E promoted \in SampledSets :
                            targetCameraZ' = UpdateCameraForParticles(targetCameraZ, promoted,
                                                 TRUE, FALSE, innerWidth, innerHeight)
                    ELSE targetCameraZ' = targetCameraZ
                 /\ framing' = IF done THEN "promoted" ELSE "none"
                 /\ lastOp' = "animateTransition"
    /\ UNCHANGED << image, particleDensity, farPositions, innerWidth, innerHeight,
                    showingWork, driverRest, galleryRest, cameraRest >>

\* handleResize: the window reports a new size and the particles are framed again.
HandleResize(size) ==
    /\ stage # "disposed"
    /\ size # << innerWidth, innerHeight >>
    /\ innerWidth' = size[1]
    /\ innerHeight' = size[2]
    /\ targetCameraZ' = UpdateCameraForParticles(targetCameraZ, particles, IsCurrent,
                            isTransitioning, size[1], size[2])
    /\ framing' = FramingOf(IsCurrent, isTransitioning)
    /\ lastOp' = "handleResize"
    /\ UNCHANGED << stage, image, particleDensity, particles, farPositions, animElapsed, initialElapsed, random,
                    isTransitioning, showingWork, driverRest, galleryRest, cameraRest >>

\* Math.ceil(Math.sqrt(n)) and Math.ceil(n / cols)
GridCols(n) == CHOOSE c \in 1..n : c * c >= n /\ (c - 1) * (c - 1) < n
GridRows(n) == (n + GridCols(n) - 1) \div GridCols(n)

\* The numbers of image planes the work gallery may hold.
WorkPlaneCounts == { 1 }

\* A click on WORK while the gallery is hidden: showWorkGallery, with the
\* continuation after its await on createWorkImagePlanes; the gallery of n image
\* planes is laid out and the camera is positioned by updateCameraForWorkGrid.
\* Only the number of planes counts here; the planes themselves are followed in
\* the work gallery's own specification below.
ShowWorkGallery(n) ==
    /\ stage # "disposed"
    /\ ~showingWork
    /\ showingWork' = TRUE
    /\ targetCameraZ' = UpdateCameraForWorkGrid(GridCols(n), GridRows(n),
                                                innerWidth, innerHeight)
    /\ framing' = "none"
    /\ lastOp' = "showWorkGallery"
    /\ UNCHANGED << stage, image, particleDensity, particles, farPositions, animElapsed,
                    initialElapsed, random, innerWidth, innerHeight, isTransitioning,
                    driverRest, galleryRest, cameraRest >>

\* ---------------------------------------------------------------- camera
MaxFrames == 2          \* frames of the render loop followed

\* const zoomLerpFactor = 0.01, in thousandths
ZoomLerpFactor == 10

\* currentCameraZ * 3
Times3(z) == IF z.k = "finite" THEN Fin(z.v * 3) ELSE z

\* currentCameraZ + (targetCameraZ - currentCameraZ) * zoomLerpFactor in IEEE
\* arithmetic: Infinity - Infinity is NaN, and NaN is absorbing. No operand is
\* ever -Infinity.
ZoomLerp(current, target) ==
    IF current.k = "NaN" \/ target.k = "NaN" THEN NaN
    ELSE IF current.k = "Infinity" THEN NaN
    ELSE IF target.k = "Infinity" THEN Infinity
    ELSE LET d == target.v - current.v
             step == IF d >= 0 THEN (d * ZoomLerpFactor) \div 1000
                     ELSE -(((-d) * ZoomLerpFactor) \div 1000)
         IN  Fin(current.v + step)

\* targetCameraZ after hideWorkGallery(): targetCameraZ = 5, then
\* updateCameraForParticles()
HideWorkGalleryTarget(ud, hasCurrent, busy, w, h) ==
    UpdateCameraForParticles(Fin(DefaultCameraZ), ud, hasCurrent, busy, w, h)

\* The members of the array wip
PlanesIn(wip) == { wip[i] : i \in 1..Len(wip) }

\* hideWorkGallery's loop over workImagePlanes: every plane in the array (and
\* its border) is made invisible, removed from the scene and disposed.
HidePlanes(P, wip) ==
    [ p \in DOMAIN P |->
        IF p \in PlanesIn(wip)
        THEN [ P[p] EXCEPT !.inScene = FALSE, !.shown = FALSE, !.disposed = TRUE ]
        ELSE P[p] ]

\* handleClick on the title text: the work gallery is hidden if it shows, and
\* the camera zoom is toggled.
HandleClickTitle ==
    /\ stage # "disposed"
    /\ LET hidden == IF showingWork
                     THEN HideWorkGalleryTarget(particles, IsCurrent, isTransitioning,
                                                innerWidth, innerHeight)
                     ELSE targetCameraZ
       IN  targetCameraZ' =
               IF isCameraZoomedOut
               THEN UpdateCameraForParticles(hidden, particles, IsCurrent, isTransitioning,
                                             innerWidth, innerHeight)
               ELSE Times3(currentCameraZ)
    /\ isCameraZoomedOut' = ~isCameraZoomedOut
    /\ showingWork' = FALSE
    /\ framing' = IF isCameraZoomedOut \/ showingWork
                  THEN FramingOf(IsCurrent, isTransitioning)
                  ELSE "none"
    /\ planes' = IF showingWork THEN HidePlanes(planes, workImagePlanes) ELSE planes
    /\ workImagePlanes' = IF showingWork THEN << >> ELSE workImagePlanes
    /\ lastOp' = "handleClick"
    /\ UNCHANGED << stage, image, particleDensity, particles, farPositions, animElapsed,
                    initialElapsed, random, innerWidth, innerHeight, isTransitioning,
                    currentCameraZ, frames, driverRest, galleryRuns, galleryStarted >>

\* handleClick on WORK while the gallery shows, or outside every text and
\* image: hideWorkGallery.
HideWorkGallery ==
    /\ stage # "disposed"
    /\ showingWork
    /\ showingWork' = FALSE
    /\ targetCameraZ' = HideWorkGalleryTarget(particles, IsCurrent, isTransitioning,
                                              innerWidth, innerHeight)
    /\ framing' = FramingOf(IsCurrent, isTransitioning)
    /\ planes' = HidePlanes(planes, workImagePlanes)
    /\ workImagePlanes' = << >>
    /\ lastOp' = "hideWorkGallery"
    /\ UNCHANGED << stage, image, particleDensity, particles, farPositions, animElapsed,
                    initialElapsed, random, innerWidth, innerHeight, isTransitioning,
                    driverRest, galleryRuns, galleryStarted, cameraRest >>

\* A frame of the render loop `animate`, as far as the camera distance goes.
Animate ==
    /\ frames < MaxFrames
    /\ frames' = frames + 1
    /\ currentCameraZ' = ZoomLerp(currentCameraZ, targetCameraZ)
    /\ framing' = "none"
    /\ lastOp' = "animate"
    /\ UNCHANGED << stage, image, particleDensity, particles, farPositions, animElapsed,
                    initialElapsed, random, innerWidth, innerHeight, targetCameraZ,
                    isTransitioning, isCameraZoomedOut, showingWork, driverRest, galleryRest >>

\* ---------------------------------------------------------- work gallery
\* The planes of the work gallery are followed through showWorkGallery, the
\* texture loads inside createWorkImagePlanes and hideWorkGallery.

MaxGalleryRuns == 2     \* showWorkGallery calls ever started

\* The first index from i on at which props.images holds a locator, or
\* images.length + 1: the iterations of createWorkImagePlanes' loop that
\* `continue` run through without a pause.
NextLocator(imgs, i) ==
    LET c == { j \in i..Len(imgs) : imgs[j] # "" }
    IN  IF c = {} THEN Len(imgs) + 1 ELSE CHOOSE j \in c : \A k \in c : j <= k

\* new THREE.Mesh(geometry, material) for the image at url, opacity 0
NewPlane(url) == [ url |-> url, inScene |-> FALSE, shown |-> FALSE, disposed |-> FALSE ]

\* showWorkGrid(): the planes in workImagePlanes are faded in and moved to
\* their grid cells.
ShowWorkGrid(P, wip) ==
    [ p \in DOMAIN P |->
        IF p \in PlanesIn(wip) THEN [ P[p] EXCEPT !.shown = TRUE ] ELSE P[p] ]

\* The rest of showWorkGallery after createWorkImagePlanes: hideLoadingText,
\* showWorkGrid, updateCameraForWorkGrid. Both return at once on an empty array.
GalleryResumes(P, wip) ==
    /\ planes' = ShowWorkGrid(P, wip)
    /\ workImagePlanes' = wip
    /\ targetCameraZ' =
           IF wip = << >> THEN targetCameraZ
           ELSE UpdateCameraForWorkGrid(GridCols(Len(wip)), GridRows(Len(wip)),
                                        innerWidth, innerHeight)

\* createWorkImagePlanes goes on from index i with planes P and array wip: it
\* waits for the texture of the next locator, or the loop ends and
\* showWorkGallery resumes.
GalleryLoop(runs, r, i, P, wip) ==
    IF NextLocator(images, i) > Len(images)
    THEN /\ galleryRuns' = runs
         /\ GalleryResumes(P, wip)
    ELSE /\ galleryRuns' = runs \cup { [ id |-> r, i |-> NextLocator(images, i) ] }
         /\ planes' = P
         /\ workImagePlanes' = wip
         /\ UNCHANGED targetCameraZ

\* A click on WORK while the gallery is hidden: showWorkGallery up to its first
\* pause. With planes in the array it shows them at once; otherwise it calls
\* createWorkImagePlanes.
ClickWork ==
    /\ ~showingWork
    /\ galleryStarted < MaxGalleryRuns
    /\ showingWork' = TRUE
    /\ galleryStarted' = galleryStarted + 1
    /\ IF workImagePlanes # << >>
       THEN /\ GalleryResumes(planes, workImagePlanes)
            /\ UNCHANGED galleryRuns
       ELSE GalleryLoop(galleryRuns, galleryStarted + 1, 1, planes, workImagePlanes)
    /\ framing' = "none"
    /\ lastOp' = "showWorkGallery"
    /\ UNCHANGED << stage, image, particleDensity, particles, farPositions, animElapsed,
                    initialElapsed, random, innerWidth, innerHeight, isTransitioning,
                    driverRest, cameraRest >>

\* loader.load calls onLoad for the texture run r waits for: the plane and its
\* border are created, added to the scene and pushed to workImagePlanes, and
\* the loop goes on.
TextureLoads(r) ==
    /\ r \in galleryRuns
    /\ LET p == Len(planes) + 1
           P == Append(planes, [ NewPlane(images[r.i]) EXCEPT !.inScene = TRUE ])
       IN  GalleryLoop(galleryRuns \ {r}, r.id, r.i + 1, P, Append(workImagePlanes, p))
    /\ framing' = "none"
    /\ lastOp' = "textureLoads"
    /\ UNCHANGED << stage, image, particleDensity, particles, farPositions, animElapsed,
                    initialElapsed, random, innerWidth, innerHeight, isTransitioning,
                    showingWork, galleryStarted, driverRest, cameraRest >>

\* loader.load calls reject: the catch logs the error and the loop goes on.
TextureFails(r) ==
    /\ r \in galleryRuns
    /\ GalleryLoop(galleryRuns \ {r}, r.id, r.i + 1, planes, workImagePlanes)
    /\ framing' = "none"
    /\ lastOp' = "textureFails"
    /\ UNCHANGED << stage, image, particleDensity, particles, farPositions, animElapsed,
                    initialElapsed, random, innerWidth, innerHeight, isTransitioning,
                    showingWork, galleryStarted, driverRest, cameraRest >>

NextParticles ==
    \/ \E d \in Densities : SetParticleDensity(d)
    \/ RequestInitial
    \/ RequestNext
    \/ \E img \in Images, stream \in RandomStreams : ImgOnload(img, stream)
    \/ InitialContinues
    \/ IncomingContinues
    \/ AdvanceAccepted
    \/ OutgoingStarts
    \/ AnimationFrame
    \/ \E size \in WindowSizes : HandleResize(size)
    \/ \E n \in WorkPlaneCounts : ShowWorkGallery(n)

\* The set is followed in a component whose driver is left in its initial state.
InitFollowed == Init /\ images = << >> /\ ~autoAdvance

SpecParticles == InitFollowed /\ [][NextParticles]_vars

\* The camera is followed for one opaque one-pixel image, sampled with a stride
\* of two canvas pixels, in a window that is upright, of no width, or of no size.
CameraImages == { img \in Images : img.w * img.h = 1 /\ img.px[<< 0, 0 >>].r = 255
                                   /\ img.px[<< 0, 0 >>].a = 255 }
CameraDensities == { [ num |-> 1, den |-> 2 ] }
CameraWindowSizes == { << 1, 2 >>, << 0, 1 >>, << 0, 0 >> }

NextCamera ==
    \/ \E d \in CameraDensities : SetParticleDensity(d)
    \/ RequestInitial
    \/ RequestNext
    \/ \E img \in CameraImages, stream \in RandomStreams : ImgOnload(img, stream)
    \/ InitialContinues
    \/ IncomingContinues
    \/ AdvanceAccepted
    \/ OutgoingStarts
    \/ AnimationFrame
    \/ \E size \in CameraWindowSizes : HandleResize(size)
    \/ \E n \in WorkPlaneCounts : ShowWorkGallery(n)
    \/ HandleClickTitle
    \/ HideWorkGallery
    \/ Animate

SpecCamera == InitFollowed /\ [][NextCamera]_vars

\* ------------------------------------------- loadImagesFromGooglePhotos
MaxCalls == 3           \* calls of loadImagesFromGooglePhotos (mount, then Retry)

\* The viewer's state, which the parent's loader does not touch.
viewerVars ==
    << images, autoAdvance, phase, sets, currentParticles, nextParticles,
       currentImageIndex, isTransitioning, animationFrameId, autoAdvanceTimer,
       rafQueue, frameRun, timers, loads, loadsStarted, advanceOutcome,
       failedAdvance, requestLen, rendered, lastEvent, lastReturn,
       stage, image, particleDensity, particles, farPositions, animElapsed,
       initialElapsed, random, innerWidth, innerHeight, targetCameraZ, framing,
       lastOp, currentCameraZ, isCameraZoomedOut, showingWork, frames,
       workImagePlanes, planes, galleryRuns, galleryStarted >>

\* An image locator: its address and whether it goes through /api/image-proxy.
AlbumUrls ==
    { [ url |-> "a", proxied |-> FALSE ], [ url |-> "b", proxied |-> TRUE ],
      [ url |-> "c", proxied |-> FALSE ] }

\* data.images of a backend response
AlbumLists ==
    { << >> } \cup { << u >> : u \in AlbumUrls }
              \cup { << u, v >> : u \in AlbumUrls, v \in AlbumUrls }

\* The message of the error a backend call fails with; "" is an empty message.
ErrorMessages == { "", "Failed to fetch", "HTTP error! status: 500" }

\* a || b on strings
OrElse(a, b) == IF a = "" THEN b ELSE a

\* getImagesFromPublicAlbum's map: a locator not yet proxied is proxied.
Proxied(urls) == [ i \in 1..Len(urls) |-> [ urls[i] EXCEPT !.proxied = TRUE ] ]

\* The message of the Error getImagesFromAlbum throws
AlbumMessage(m) == OrElse(m, "Failed to fetch images from Google Photos")

\* onMounted, or a click on Retry (shown when loading is false and there are
\* no images): loadImagesFromGooglePhotos up to its first await.
LoadImagesFromGooglePhotos ==
    /\ loadPc = "idle"
    /\ loadCalls < MaxCalls
    /\ loadCalls = 0 \/ (~loading /\ Len(albumImages) = 0)
    /\ loadCalls' = loadCalls + 1
    /\ loading' = TRUE
    /\ error' = Null
    /\ loadPc' = "public"
    /\ publicOutcome' = "none"
    /\ oauthCalled' = FALSE
    /\ obtained' = FALSE
    /\ UNCHANGED albumImages
    /\ UNCHANGED viewerVars

\* getImagesFromPublicAlbum resolves with the proxied locators of the response:
\* with images the call ends, with none getImagesFromAlbum is called.
PublicAlbumReturns(urls) ==
    /\ loadPc = "public"
    /\ IF Len(Proxied(urls)) > 0
       THEN /\ albumImages' = Proxied(urls)
            /\ obtained' = TRUE
            /\ publicOutcome' = "images"
            /\ loading' = FALSE
            /\ loadPc' = "idle"
            /\ UNCHANGED oauthCalled
       ELSE /\ publicOutcome' = "empty"
            /\ oauthCalled' = TRUE
            /\ loadPc' = "oauth"
            /\ UNCHANGED << albumImages, obtained, loading >>
    /\ UNCHANGED << error, loadCalls >>
    /\ UNCHANGED viewerVars

\* getImagesFromPublicAlbum rejects: the inner catch logs the error and
\* getImagesFromAlbum is called.
PublicAlbumThrows ==
    /\ loadPc = "public"
    /\ publicOutcome' = "throws"
    /\ oauthCalled' = TRUE
    /\ loadPc' = "oauth"
    /\ UNCHANGED << albumImages, obtained, loading, error, loadCalls >>
    /\ UNCHANGED viewerVars

\* Mutant: an empty album leaves error null.
AlbumReturns_NoError(urls) ==
    /\ loadPc = "oauth"
    /\ IF Len(urls) = 0
       THEN UNCHANGED << error, albumImages, obtained >>
       ELSE /\ albumImages' = urls
            /\ obtained' = TRUE
            /\ UNCHANGED error
    /\ loading' = FALSE
    /\ loadPc' = "idle"
    /\ UNCHANGED << loadCalls, publicOutcome, oauthCalled >>
    /\ UNCHANGED viewerVars

\* getImagesFromAlbum resolves with the locators of the response.
AlbumReturns(urls) ==
    /\ loadPc = "oauth"
    /\ IF Len(urls) = 0
       THEN /\ error' = "No images found in the album."
            /\ UNCHANGED << albumImages, obtained >>
       ELSE /\ albumImages' = urls
            /\ obtained' = TRUE
            /\ UNCHANGED error
    /\ loading' = FALSE
    /\ loadPc' = "idle"
    /\ UNCHANGED << loadCalls, publicOutcome, oauthCalled >>
    /\ UNCHANGED viewerVars

\* getImagesFromAlbum rejects: the outer catch sets error.
AlbumThrows(m) ==
    /\ loadPc = "oauth"
    /\ error' = OrElse(AlbumMessage(m), "Failed to load images from Google Photos.")
    /\ loading' = FALSE
    /\ loadPc' = "idle"
    /\ UNCHANGED << albumImages, obtained, loadCalls, publicOutcome, oauthCalled >>
    /\ UNCHANGED viewerVars

NextApp ==
    \/ LoadImagesFromGooglePhotos
    \/ \E urls \in AlbumLists : PublicAlbumReturns(urls)
    \/ PublicAlbumThrows
    \/ \E urls \in AlbumLists : AlbumReturns(urls)
    \/ \E m \in ErrorMessages : AlbumThrows(m)

SpecApp == InitFollowed /\ [][NextApp]_vars

\* The work gallery is followed over every image list, with no particle set
\* loaded.
InitGallery == Init /\ ~autoAdvance

NextGallery ==
    \/ ClickWork
    \/ \E r \in galleryRuns : TextureLoads(r)
    \/ \E r \in galleryRuns : TextureFails(r)
    \/ HideWorkGallery
    \/ HandleClickTitle

SpecGallery == InitGallery /\ [][NextGallery]_vars

\* ================================================================ claims

\* The animation loops (animateTransition, animateInitial) among callbacks q.
ParticleLoops(q) == { i \in 1..Len(q) : q[i].kind # "animate" }

\* A timer scheduled in the step: it has the full interval left.
TimerScheduled ==
    \E t \in timers' : t.remaining = AutoAdvanceInterval /\ t.id = autoAdvanceTimer'

\* C1: while isTransitioning is true, a call of transitionToNext (a manual next
\* or the auto-advance timer firing) starts no sampling, adds no set to the
\* scene and leaves currentParticles, nextParticles and currentImageIndex as
\* they were; nothing is queued for later.
C1_BusyAdvanceDropped ==
    [][ (isTransitioning /\ lastEvent' \in {"next", "timer"})
        => UNCHANGED << loads, loadsStarted, sets, currentParticles, nextParticles,
                        currentImageIndex, isTransitioning, rafQueue >> ]_vars

\* The auto-advance timer fired while a transition was animating and was dropped.
C1_Witness ==
    /\ lastEvent = "timer"
    /\ lastReturn = "guard"
    /\ isTransitioning
    /\ nextParticles # 0

\* C2: never two sampler loads pending at once, nor two animation loops
\* updating particle sets in the same frame.
C2_OneSessionAtATime ==
    /\ Cardinality(loads) <= 1
    /\ Cardinality(ParticleLoops(frameRun)) <= 1
    /\ Cardinality(ParticleLoops(rafQueue)) <= 1

\* C3: the frame that completes a transition leaves the former incoming set as
\* the current one, nextParticles null, and the outgoing set out of the scene
\* with its geometry and its material disposed exactly once.
C3_CompletionLeavesOneSet ==
    [][ (lastEvent' = "animateTransition" /\ lastReturn' = "complete")
        => /\ nextParticles # 0
           /\ currentParticles' = nextParticles
           /\ nextParticles' = 0
           /\ currentParticles # 0
                => /\ ~sets'[currentParticles].inScene
                   /\ sets'[currentParticles].geomDisposed = 1
                   /\ sets'[currentParticles].matDisposed = 1 ]_vars

\* C4: no set is written to after it was disposed, and no set is disposed twice.
C4_NoUseAfterDispose ==
    \A s \in DOMAIN sets :
        /\ ~sets[s].usedAfterDispose
        /\ sets[s].geomDisposed <= 1
        /\ sets[s].matDisposed <= 1

\* C5: after unmount no frame callback runs and no auto-advance timer fires.
C5_NothingRunsAfterUnmount ==
    phase = "unmounted"
        => lastEvent \notin {"animate", "animateTransition", "animateInitial", "timer"}

\* C6: once the component is unmounted and everything pending has settled, no
\* particle set the sampler created is left undisposed.
C6_UnmountLeavesNoSet ==
    ( /\ phase = "unmounted"
      /\ loads = {}
      /\ rafQueue = << >>
      /\ frameRun = << >>
      /\ timers = {} )
        => \A s \in DOMAIN sets :
               sets[s].geomDisposed >= 1 /\ sets[s].matDisposed >= 1

C8_FailureReported ==
    lastEvent = "loadNextFails" => advanceOutcome = "rejected"

\* C9: after a failed advance, and until the next external request (a call of
\* next or a change of the image list), the mounted component starts no
\* sampling.
C9_NoAutomaticRetry ==
    [][ (failedAdvance /\ failedAdvance' /\ phase' = "mounted")
        => loadsStarted' = loadsStarted ]_vars

\* C10 as stated: with autoAdvance enabled, every step that brings the driver
\* to Steady (the busy flag falls, or the initial animation ends) schedules
\* the deferred advance.
C10_EverySteadySchedules ==
    [][ ( /\ autoAdvance
          /\ \/ isTransitioning /\ ~isTransitioning'
             \/ lastEvent' = "animateInitial" /\ lastReturn' = "complete" )
        => TimerScheduled ]_vars

\* C10 as amended: with autoAdvance enabled every completion of a transition or
\* of the initial animation schedules a timer due autoAdvanceInterval later;
\* the timer fires exactly when that time has passed and then starts a new
\* Loading unless a transition is in flight or there is no next locator; with
\* autoAdvance disabled there is never a timer.
C10_CompletionSchedulesAdvance ==
    [][ /\ ( /\ autoAdvance
             /\ lastEvent' \in {"animateTransition", "animateInitial"}
             /\ lastReturn' = "complete" )
           => TimerScheduled
        /\ lastEvent' = "timer"
           => /\ \E t \in timers : t.remaining = 0 /\ timers' = timers \ {t}
              /\ ( /\ ~isTransitioning
                   /\ Len(images) # 0
                   /\ images[NextIndex + 1] # "" )
                 => /\ isTransitioning'
                    /\ \E l \in loads' \ loads : l.kind = "next" /\ l.nextIndex = NextIndex
        /\ ~autoAdvance => (timers' = {} /\ autoAdvanceTimer' = 0) ]_vars

\* A timer scheduled at a completion has fired on time and started a Loading.
C10_Witness ==
    /\ autoAdvance
    /\ lastEvent = "timer"
    /\ lastReturn = "await"
    /\ isTransitioning
    /\ currentParticles # 0

\* The step is the frame in which a transition completes.
CompletionStep == lastEvent' = "animateTransition" /\ lastReturn' = "complete"

\* C11 as stated: in the mounted component a completed transition advances
\* currentImageIndex by one modulo the number of images, and the index changes
\* at no other step.
C11_IndexAdvancesOnlyAtCompletion ==
    [][ phase' = "mounted"
        => /\ CompletionStep
              => /\ Len(images) # 0
                 /\ currentImageIndex' = (currentImageIndex + 1) % Len(images)
           /\ currentImageIndex' # currentImageIndex => CompletionStep ]_vars

\* C11 as amended: a completed transition advances currentImageIndex by one
\* modulo the number of images the list had when the advance was requested;
\* apart from that the index changes only when the image list is replaced
\* while no transition is in flight, which resets it to 0.
C11_IndexAdvancesByRequest ==
    [][ /\ CompletionStep
           => /\ requestLen # 0
              /\ currentImageIndex' = (currentImageIndex + 1) % requestLen
        /\ currentImageIndex' # currentImageIndex
           => \/ CompletionStep
              \/ /\ lastEvent' = "watch"
                 /\ ~isTransitioning
                 /\ currentImageIndex' = 0 ]_vars

\* The second transition in a row has completed: the index went 0, 1, 2.
C11_Witness ==
    /\ lastEvent = "animateTransition"
    /\ lastReturn = "complete"
    /\ currentImageIndex = 2
    /\ currentParticles # 0

\* C12: when animateTransition updates the particle sets in a frame, the
\* render step of that frame has not yet read the scene.
C12_UpdatesBeforeRender ==
    lastEvent = "animateTransition" => ~rendered

\* The particle sets that are children of the scene.
InScene == { s \in DOMAIN sets : sets[s].inScene }

\* A current set exists and no load, transition or animation loop is pending.
Steady ==
    /\ phase = "mounted"
    /\ currentParticles # 0
    /\ ~isTransitioning
    /\ loads = {}
    /\ ParticleLoops(rafQueue) = {}
    /\ ParticleLoops(frameRun) = {}

\* C19: the scene holds at most two particle sets, each referenced by
\* currentParticles or nextParticles, and exactly one in Steady state.
C19_SceneHoldsOnlyReferencedSets ==
    /\ Cardinality(InScene) <= 2
    /\ InScene \subseteq {currentParticles, nextParticles}
    /\ Steady => Cardinality(InScene) = 1

\* An accepted advance is waiting for the sampler.
Loading == isTransitioning /\ \E l \in loads : l.kind = "next"

\* C20: while the mounted component is Loading, no step changes which set is
\* current nor that set's positions, opacity or scene membership.
C20_LoadingLeavesCurrentSet ==
    [][ (Loading /\ Loading' /\ currentParticles # 0 /\ phase' = "mounted")
        => /\ currentParticles' = currentParticles
           /\ sets'[currentParticles] = sets[currentParticles] ]_vars

\* ---------------------------------------------------------------------
\* Claims about one particle set (specification SpecParticles)
\* ---------------------------------------------------------------------

\* A sampled set exists.
HasParticles == stage \notin { "none", "loadingInitial", "loadingNext" }

\* The sampler has just resolved with the set.
JustSampled == stage \in { "sampledInitial", "sampledNext" }

\* the per-particle arrays of ud have the lengths its count asks for
LengthsMatch(ud) ==
    /\ Len(ud.positions) = 3 * ud.count
    /\ Len(ud.originalPositions) = 3 * ud.count
    /\ Len(ud.colors) = 3 * ud.count
    /\ Len(ud.delays) = ud.count

\* C13: for the set imageToParticles produced, positions.length / 3 =
\* originalPositions.length / 3 = colors.length / 3 = delays.length = count,
\* also after far seeding and after every per-frame update.
C13_ArrayLengthsMatchCount == HasParticles => LengthsMatch(particles)

\* The set was seeded, imploded and is being exploded.
C13_Witness ==
    /\ stage = "outgoing"
    /\ animElapsed >= FrameInterval
    /\ particles.count > 1
    /\ particles.positions # particles.originalPositions

\* C14: every particle's original position has x and y in [-1, 1] and z = 0.
C14_TargetsInUnitSquare ==
    HasParticles =>
        \A i \in 0..(particles.count - 1) :
            /\ particles.originalPositions[i * 3 + 1] \in -1000..1000
            /\ particles.originalPositions[i * 3 + 2] \in -1000..1000
            /\ particles.originalPositions[i * 3 + 3] = 0

\* A set of several particles, not all in the canvas's first column or row.
C14_Witness ==
    /\ JustSampled
    /\ \E i \in 0..(particles.count - 1) :
          /\ particles.originalPositions[i * 3 + 1] > -1000
          /\ particles.originalPositions[i * 3 + 2] < 1000

\* The sampler was fed a 2x2 fully opaque bitmap with density 1.
TwoByTwoOpaqueAtFullDensity ==
    /\ JustSampled
    /\ image.w = 2 /\ image.h = 2
    /\ \A c \in DOMAIN image.px : image.px[c].a = 255
    /\ particleDensity.num = particleDensity.den

\* the original position of particle i of ud
TargetOf(ud, i) ==
    << ud.originalPositions[i * 3 + 1], ud.originalPositions[i * 3 + 2],
       ud.originalPositions[i * 3 + 3] >>

\* the colour of particle i of ud
ColorOf(ud, i) == << ud.colors[i * 3 + 1], ud.colors[i * 3 + 2], ud.colors[i * 3 + 3] >>

C16_TransparentImageYieldsEmptySet ==
    (JustSampled /\ \A c \in DOMAIN image.px : image.px[c].a = 0)
        => particles.count = 0

\* a camera distance that is finite and positive
FinitePositive(z) == z.k = "finite" /\ z.v > 0

\* The input updateCameraForParticles sees after the step is degenerate: no
\* particle, all particles in one column or one row (a zero extent), or a
\* window of height 0 (the distance is then 0, or NaN if the width is 0 too).
DegenerateAfter ==
    \/ particles'.count = 0
    \/ \A i, j \in 0..(particles'.count - 1) :
          particles'.originalPositions[i * 3 + 1] = particles'.originalPositions[j * 3 + 1]
    \/ \A i, j \in 0..(particles'.count - 1) :
          particles'.originalPositions[i * 3 + 2] = particles'.originalPositions[j * 3 + 2]
    \/ innerHeight' = 0

OtherPositions(ud) ==
    { ud.originalPositions,
      FarSeed(ud, TRUE, random).positions,
      [ j \in 1..Len(ud.positions) |-> 0 ] }

\* C18: the target updateCameraForParticles computes is the same whatever
\* the set's animated positions are (for the same original positions, count,
\* field of view and window).
C18_TargetIgnoresAnimatedPositions ==
    [][ framing' = "framed"
        => \A other \in OtherPositions(particles') :
              targetCameraZ' = Framed([ particles' EXCEPT !.positions = other ],
                                      innerWidth', innerHeight') ]_vars

\* A set whose particles are away from their targets was framed from its
\* bounding box.
C18_Witness ==
    /\ framing = "framed"
    /\ lastOp = "handleResize"
    /\ particles.positions # particles.originalPositions
    /\ targetCameraZ # Fin(DefaultCameraZ)

\* particle i of ud has finished its own delayed progress at loop time t:
\* Math.min(Math.max(0, elapsed - delay) / duration, 1) = 1
ParticleResolved(ud, i, t) == Progress(Max2(0, t - ArrayLoad(ud.delays, i)), Duration) = 1000

\* C21: a frame callback of animateTransition completes the transition exactly
\* when its elapsed time has reached the duration, whatever the particles'
\* delays are; no earlier callback of the loop had reached it; the completing
\* callback clears the busy flag, promotes the incoming set or disposes the
\* outgoing one and requests no further callback, and every other callback
\* leaves the transition in flight and requests the next one.
C21_CompletesAtFirstFrameAtDuration ==
    [][ lastOp' = "animateTransition"
        => /\ animElapsed < Duration
           /\ isTransitioning
           /\ IF animElapsed' >= Duration
              THEN /\ ~isTransitioning'
                   /\ stage' = (IF stage = "incoming" THEN "current" ELSE "disposed")
                   /\ ~LoopPending'
              ELSE /\ isTransitioning'
                   /\ stage' \in { stage, "outgoing" }
                   /\ LoopPending' ]_vars

\* The incoming set was promoted by the frame that reached the duration while
\* one of its particles had not finished its delayed progress and another had.
C21_Witness ==
    /\ lastOp = "animateTransition"
    /\ stage = "current"
    /\ ~isTransitioning
    /\ animElapsed = Duration
    /\ \E i, j \in 0..(particles.count - 1) :
          /\ ~ParticleResolved(particles, i, animElapsed)
          /\ ParticleResolved(particles, j, animElapsed)

\* The step ends the set's animation loop (Animating -> Steady).
LoopEnds == LoopPending /\ ~LoopPending'

\* C22 as stated: the animation ends only when every particle's own delayed
\* progress, max(0, elapsed - delay[i]) / duration, has reached 1.
C22_CompletesWhenLastParticleResolved ==
    [][ LoopEnds
        => \A i \in 0..(particles'.count - 1) :
              ParticleResolved(particles', i, animElapsed') ]_vars

\* C22 as amended: the animation ends when the overall elapsed time has
\* reached the duration; at that step exactly the particles whose delay is at
\* most elapsed - duration have finished their own delayed progress, the
\* others have not.
C22_CompletesAtOverallDuration ==
    [][ LoopEnds
        => /\ animElapsed' >= Duration
           /\ \A i \in 0..(particles'.count - 1) :
                 ParticleResolved(particles', i, animElapsed')
                     <=> particles'.delays[i + 1] <= animElapsed' - Duration ]_vars

\* The initial animation has ended with a delayed particle unresolved and
\* still away from its target.
C22_Witness ==
    /\ lastOp = "animateInitial"
    /\ stage = "current"
    /\ \E i \in 0..(particles.count - 1) :
          /\ ~ParticleResolved(particles, i, animElapsed)
          /\ particles.positions[i * 3 + 1] # particles.originalPositions[i * 3 + 1]

\* The seeding loop has just run on the set (and the first call of its
\* animation loop after it).
JustSeeded ==
    \/ stage = "initial" /\ lastOp = "loadInitialImage"
    \/ stage = "incoming" /\ lastOp = "transitionToNext"

\* where the seeding loop put particle i
FarOf(i) == << farPositions[i * 3 + 1], farPositions[i * 3 + 2], farPositions[i * 3 + 3] >>

\* Far seeding put particle i with target (x, y) at (x * s, y * s, z) with
\* s = 10 + 5 * sqrt(x * x + y * y) and z in [-10, 10].
SeededByFormula(i) ==
    LET x == TargetOf(particles, i)[1]
        y == TargetOf(particles, i)[2]
        s == 10000 + 5 * Hypot(x, y)
    IN  /\ FarOf(i)[1] = Trunc(x * s, 1000)
        /\ FarOf(i)[2] = Trunc(y * s, 1000)
        /\ FarOf(i)[3] \in -10000..10000

\* C23: after far seeding, of the first set and of an incoming set, every
\* particle is at (x * s, y * s, z) with s = 10 + 5 * sqrt(x^2 + y^2) and z in
\* [-10, 10] for its target (x, y), and outside the camera's view frustum.
C23_FarSeededOutsideFrustum ==
    JustSeeded =>
        \A i \in 0..(particles.count - 1) :
            /\ SeededByFormula(i)
            /\ \A cam \in CameraPositions :
                  ~InFrustum(FarOf(i), cam, innerWidth, innerHeight)

\* C24: once a particle set exists, no operation on it (far seeding, an
\* implode or explode update, camera framing, promotion to current, disposal)
\* changes its count, originalPositions, colors, delays or velocities; of its
\* userData only the animated positions change.
C24_OnlyPositionsChange ==
    [][ HasParticles
        => /\ particles'.count = particles.count
           /\ particles'.originalPositions = particles.originalPositions
           /\ particles'.colors = particles.colors
           /\ particles'.delays = particles.delays
           /\ particles'.velocities = particles.velocities ]_vars

\* An incoming set was seeded, imploded, promoted to current and framed, and
\* its particles are neither where the seeding put them nor at their targets.
C24_Witness ==
    /\ stage = "current"
    /\ lastOp = "animateTransition"
    /\ framing = "framed"
    /\ particles.count > 1
    /\ particles.positions # farPositions
    /\ particles.positions # particles.originalPositions

\* ---------------------------------------------------------------------
\* Claims about the opacities (specification Spec)
\* ---------------------------------------------------------------------

\* The callbacks of animateTransition among callbacks q.
TransitionLoops(q) == { i \in 1..Len(q) : q[i].kind = "transition" }

\* C25: in the mounted component, at the end of every frame of a transition
\* the outgoing set's opacity is 0.9 * (1 - e) and the incoming set's is
\* 0.9 * e for e = easeInOutCubic(min(elapsed / duration, 1)) of that frame
\* (so each is within [0, 0.9] and they sum to 0.9); the frame that completes
\* the transition leaves the promoted set with opacity 0.9 and disposes the
\* outgoing set with opacity 0.
C25_OpacitiesCrossFade ==
    [][ phase' = "mounted"
        => /\ frameRun' = << >>
              => \A i \in TransitionLoops(rafQueue') :
                    LET e == rafQueue'[i].elapsed
                    IN  /\ nextParticles' # 0 => sets'[nextParticles'].opacity = FadeIn(e)
                        /\ currentParticles' # 0
                              => sets'[currentParticles'].opacity = FadeOut(e)
                        /\ (nextParticles' # 0 /\ currentParticles' # 0)
                              => /\ sets'[nextParticles'].opacity \in 0..900
                                 /\ sets'[currentParticles'].opacity \in 0..900
                                 /\ sets'[nextParticles'].opacity
                                      + sets'[currentParticles'].opacity = 900
           /\ CompletionStep
              => /\ currentParticles' # 0 => sets'[currentParticles'].opacity = 900
                 /\ currentParticles # 0 => sets'[currentParticles].opacity = 0 ]_vars

\* ---------------------------------------------------------------------
\* More claims about one particle set (specification SpecParticles)
\* ---------------------------------------------------------------------

\* stride = max(1, floor(1 / density))
Stride == IF particleDensity.den \div particleDensity.num >= 1
          THEN particleDensity.den \div particleDensity.num ELSE 1

\* The canvas pixels whose x and y are multiples of the stride and whose
\* alpha is at least 10.
Emitting ==
    { c \in (0..(CanvasSize - 1)) \X (0..(CanvasSize - 1)) :
        /\ c[1] % Stride = 0
        /\ c[2] % Stride = 0
        /\ GetImageData(image, c[1], c[2]).a >= 10 }

\* the number of pixels of Emitting before c in row-major order
RowMajorRank(c) ==
    Cardinality({ d \in Emitting : d[2] < c[2] \/ (d[2] = c[2] /\ d[1] < c[1]) })

ImplodeStep ==
    \/ /\ stage \in { "sampledInitial", "sampledNext" }
       /\ lastOp' \in { "loadInitialImage", "transitionToNext" }
    \/ /\ stage \in { "initial", "incoming" }
       /\ lastOp' \in { "animateInitial", "animateTransition" }

\* the coordinates the implode loop of the step read
ImplodedFrom == IF stage \in { "sampledInitial", "sampledNext" } THEN farPositions'
                ELSE particles.positions

Abs(a) == IF a >= 0 THEN a ELSE -a

\* C27: in a frame every coordinate of an imploding particle moves toward its
\* target by a fraction between 0.02 and 0.22 of its remaining offset (the
\* result rounded toward the old value): the distance to the target does not
\* increase, the coordinate does not pass the target, and it reaches the
\* target only if it was there already.
C27_ImplodeApproachesTarget ==
    [][ ImplodeStep
        => \A j \in 1..(3 * particles'.count) :
              LET cur == ImplodedFrom[j]
                  target == particles'.originalPositions[j]
                  new == particles'.positions[j]
              IN  /\ Abs(new - cur) >= (Abs(target - cur) * 20) \div 1000
                  /\ Abs(new - cur) <= (Abs(target - cur) * 220) \div 1000
                  /\ Abs(target - new) <= Abs(target - cur)
                  /\ (target - new) * (target - cur) >= 0
                  /\ new = target => cur = target ]_vars

\* An incoming particle without delay is half way through its progress and
\* on its way: away from where it was seeded and not yet at its target.
C27_Witness ==
    /\ stage = "incoming"
    /\ lastOp = "animateTransition"
    /\ animElapsed = Duration \div 2
    /\ \E i \in 0..(particles.count - 1) :
          /\ particles.delays[i + 1] = 0
          /\ particles.positions[i * 3 + 1] # farPositions[i * 3 + 1]
          /\ particles.positions[i * 3 + 1] # particles.originalPositions[i * 3 + 1]

\* A step in which animateTransition runs on the outgoing set: its first call
\* in transitionToNext, or a display frame.
ExplodeStep ==
    /\ stage \in { "initial", "current", "initialOutgoing", "outgoing" }
    /\ stage' \in { "initialOutgoing", "outgoing", "disposed" }

\* userData.positions of particle i
PositionOf(ud, i) ==
    << ud.positions[i * 3 + 1], ud.positions[i * 3 + 2], ud.positions[i * 3 + 3] >>

\* C28: in a frame of the explode phase, an outgoing particle whose delay has
\* not elapsed (elapsed <= delay[i]) is where it was before the frame.
C28_DelayedOutgoingParticleStays ==
    [][ ExplodeStep
        => \A i \in 0..(particles.count - 1) :
              animElapsed' <= particles.delays[i + 1]
                  => PositionOf(particles', i) = PositionOf(particles, i) ]_vars

\* A click on the title text that finds the camera zoomed out: it zooms in.
ZoomInClick == lastOp' = "handleClick" /\ isCameraZoomedOut

\* The step is the frame callback that completes the transition.
TransitionCompletes ==
    lastOp' = "animateTransition" /\ isTransitioning /\ ~isTransitioning'

\* The completing callback framed the promoted set with the busy flag cleared.
FramedAtCompletion ==
    IF stage = "incoming"
    THEN /\ framing' = "framed"
         /\ stage' = "current"
         /\ targetCameraZ' = Framed(particles', innerWidth, innerHeight)
    ELSE /\ framing' = "promoted"
         /\ \E promoted \in SampledSets :
               targetCameraZ' = Framed(promoted, innerWidth, innerHeight)

Leq(p, q) ==
    /\ p.k # "NaN"
    /\ q.k # "NaN"
    /\ \/ q.k = "Infinity"
       \/ p.k = "finite" /\ q.k = "finite" /\ p.v <= q.v

\* z lies between a and b, in either order
Between(z, a, b) == (Leq(a, z) /\ Leq(z, b)) \/ (Leq(b, z) /\ Leq(z, a))

\* C30: currentCameraZ changes only in a frame of `animate`, which adds
\* (targetCameraZ - currentCameraZ) * 0.01 to it; after the frame it lies
\* between its previous value and targetCameraZ.
C30_CameraZLerpsTowardTarget ==
    [][ /\ currentCameraZ' # currentCameraZ => lastOp' = "animate"
        /\ lastOp' = "animate"
               => /\ currentCameraZ' = ZoomLerp(currentCameraZ, targetCameraZ)
                  /\ Between(currentCameraZ', currentCameraZ, targetCameraZ) ]_vars

\* The step ran updateCameraForParticles past its guard.
FramerWrote == framing' \in { "framed", "promoted" }

\* C31: targetCameraZ is written only by the Camera Framer for particles
\* (updateCameraForParticles): a step that changes it is one in which the
\* framer got past its guard, and the framing written when a transition
\* completes replaces a value the framer wrote.
C31_OnlyFramerWritesTarget ==
    [][ /\ targetCameraZ' # targetCameraZ => FramerWrote
        /\ (TransitionCompletes /\ targetCameraZ' # targetCameraZ)
               => \E ud \in SampledSets, size \in CameraWindowSizes \cup { << 2, 1 >> } :
                     targetCameraZ = Framed(ud, size[1], size[2]) ]_vars

\* ---------------------------------------------------------------------
\* Claims about the transition driver (specification Spec), continued
\* ---------------------------------------------------------------------

\* No callback of animateTransition or animateInitial is requested or about
\* to run.
NoLoopScheduled == ParticleLoops(rafQueue) = {} /\ ParticleLoops(frameRun) = {}

\* C32: while no animation loop is scheduled, no step but the one in which the
\* next transition starts animating changes the positions or the opacity of
\* the current particle set.
C32_SteadySetIsStatic ==
    [][ ( /\ currentParticles # 0
          /\ NoLoopScheduled
          /\ lastEvent' # "loadNextResolves" )
        => /\ sets'[currentParticles].updates = sets[currentParticles].updates
           /\ sets'[currentParticles].opacity = sets[currentParticles].opacity ]_vars

\* The render loop has drawn a frame in Steady state: the current set had
\* its last position pass when its animation ended.
C32_Witness ==
    /\ Steady
    /\ lastEvent = "animate"
    /\ sets[currentParticles].updates > 0
    /\ sets[currentParticles].opacity = InitialOpacity

\* C33: at most one auto-advance timer is pending after every step, and a step
\* that schedules one leaves it as the only one: the timer pending before is
\* cancelled.
C33_OneTimerPending ==
    [][ /\ Cardinality(timers') <= 1
        /\ TimerScheduled
              => timers' = { [ id |-> autoAdvanceTimer',
                               remaining |-> AutoAdvanceInterval ] } ]_vars

\* A timer scheduled earlier is still pending while the frame callback that
\* completes a manually requested transition is about to run and to schedule
\* the next one.
C33_Witness ==
    /\ autoAdvance
    /\ isTransitioning
    /\ \E t \in timers : t.remaining < AutoAdvanceInterval /\ t.id = autoAdvanceTimer
    /\ frameRun # << >>
    /\ Head(frameRun).kind = "transition"
    /\ TransitionDone(Head(frameRun).elapsed)

\* C34: whenever the image list is non-empty, currentImageIndex is a valid index
\* into it, 0 <= currentImageIndex < images.length, also after the list is
\* replaced by a shorter one while a transition is in flight.
C34_IndexWithinImages ==
    Len(images) > 0 => currentImageIndex \in 0 .. Len(images) - 1

\* C35: whenever the driver is Steady over a non-empty image list, the current
\* particle set is the one sampled from images[currentImageIndex].
C35_SteadyShowsIndexedImage ==
    (Steady /\ Len(images) > 0)
        => /\ currentImageIndex < Len(images)
           /\ sets[currentParticles].url = images[currentImageIndex + 1]

\* ------------------------------------------------- the driver under fairness
\* What the browser's scheduling guarantees: a display refresh keeps coming and
\* runs every callback requested for it, a timer that is due fires, and an image
\* being loaded calls onload or onerror at some task boundary between frames.
Fairness ==
    /\ WF_vars(BeginFrame)
    /\ WF_vars(RunAnimate)
    /\ WF_vars(RunAnimateTransition)
    /\ WF_vars(RunAnimateInitial)
    /\ SF_vars(\E t \in timers : TimerFire(t))
    /\ SF_vars(\E l \in loads : LoadNextResolves(l) \/ LoadNextFails(l))

SpecFair == Init /\ [][Next]_vars /\ Fairness

\* C36 as stated: whenever the busy flag is set, it is cleared later, given
\* that loads settle and frames keep coming.
C36_BusyFlagClears == isTransitioning ~> ~isTransitioning

\* C36, amended: whenever the busy flag is set, later it is cleared or the
\* component has been unmounted; a mounted component never stays busy forever.
C36_BusyFlagClearsWhileMounted ==
    isTransitioning ~> (~isTransitioning \/ phase = "unmounted")

\* An accepted advance of the mounted component has ended, by completion or by
\* the abort of a failed load, and the flag is clear.
C36_Witness ==
    /\ phase = "mounted"
    /\ ~isTransitioning
    /\ advanceOutcome = "fulfilled"
    /\ \/ lastEvent = "animateTransition" /\ lastReturn = "complete"
       \/ lastEvent = "loadNextFails" /\ lastReturn = "catch"

\* A call of transitionToNext, by next() or by the timer, finds the image list
\* empty or the locator at the next index empty.
EmptyAdvance ==
    /\ lastEvent' \in { "next", "timer" }
    /\ \/ Len(images) = 0
       \/ images[NextIndex + 1] = ""

\* What a no-op advance leaves alone: no load starts, no set is created or
\* changed, and the current set, the incoming set and the index stay.
NothingStarted ==
    /\ loads' = loads
    /\ loadsStarted' = loadsStarted
    /\ sets' = sets
    /\ currentParticles' = currentParticles
    /\ nextParticles' = nextParticles
    /\ currentImageIndex' = currentImageIndex

\* C37 as stated: an advance request with an empty image list or an empty next
\* locator starts nothing and leaves isTransitioning false.
C37_EmptyAdvanceLeavesIdle ==
    [][ EmptyAdvance => (NothingStarted /\ ~isTransitioning') ]_vars

\* C37, amended: such a request starts nothing and leaves isTransitioning as it
\* was, false unless a transition was already in flight.
C37_EmptyAdvanceIsNoOp ==
    [][ EmptyAdvance => (NothingStarted /\ isTransitioning' = isTransitioning) ]_vars

\* An idle component with a current set was asked to advance to an empty
\* locator and returned idle.
C37_Witness ==
    /\ lastEvent \in { "next", "timer" }
    /\ lastReturn = "nourl"
    /\ ~isTransitioning
    /\ currentParticles # 0

\* ---------------------- claims about the work gallery (specification SpecGallery)
\* C38: a work image plane is in the scene only while showingWork is true, and
\* no two planes in the scene are planes of the same image.
C38_PlanesOnlyWhileShowing ==
    /\ (\E p \in DOMAIN planes : planes[p].inScene) => showingWork
    /\ \A p, q \in DOMAIN planes :
          (planes[p].inScene /\ planes[q].inScene /\ planes[p].url = planes[q].url)
              => p = q

====
